---- MODULE Spec2Model ----
(***************************************************************************)
(* Model of the temporal-safety pipeline of cpp-cohida:                    *)
(*   ml::DataSplitter  (src/ml/DataSplitter.cpp)                           *)
(*   ml::Preprocessor  (src/ml/Preprocessor.cpp)                           *)
(*                                                                         *)
(* Ratios are exact multiples of 1e-7 (RatioScale stands for 1.0); for     *)
(* every ratio in Ratios and every row count up to the bound the double    *)
(* product n * ratio truncates to the same integer as (n * r) \div         *)
(* RatioScale.                                                             *)
(*                                                                         *)
(* Eigen block expressions (middleRows, segment) whose start or size is    *)
(* negative or which reach past the end of the object have undefined       *)
(* behaviour: a build with Eigen assertions aborts, a build without them   *)
(* carries on with an ill-formed block.  Both outcomes are kept.           *)
(***************************************************************************)
EXTENDS Integers, Sequences, FiniteSets, TLC

\* ------------------------------------------------------------------ bounds
MaxRows == 12
MaxWalkRows == 6
MaxSplits == 3
MaxStamps == 2
MaxStampValue == 2
MaxPreRows == 2
MaxScaleRows == 3

MaxBars == 4

MaxPrices == 4

MaxPrice == 2

\* ------------------------------------------------------- program constants
RatioScale == 10000000
RatioTolerance == 10
MinSplitRows == 10
DefaultTrainTenths == 3

Ratios ==
  {0 - 1000000, 0, 1, 4, 100000, 400000, 1500000, 7000000, 9500000, 10000000}

VARIABLES splitter, result, pp, fe, ti

vars == <<splitter, result, pp, fe, ti>>

\* ------------------------------------------------------------------- data
\* A feature column that increases strictly with the row index, and a
\* target vector whose entries identify their index.
XData(n) == [i \in 1..n |-> 10 * i]

YData(m) == [i \in 1..m |-> 100 + i]

Junk == 0 - 1

\* What an ill-formed block may hold once control returns to the caller.
UBSlices == {<< >>, <<Junk>>}

Abs(x) == IF x < 0 THEN 0 - x ELSE x

Min(a, b) == IF a < b THEN a ELSE b

\* static_cast<int>(n * ratio) for n >= 0: truncation toward zero.
TruncMul(n, r) == IF r >= 0 THEN (n * r) \div RatioScale
                  ELSE 0 - ((n * (0 - r)) \div RatioScale)

\* Eigen's precondition for middleRows(start, cnt) / segment(start, cnt).
BlockValid(len, start, cnt) == start >= 0 /\ cnt >= 0 /\ start + cnt <= len

Block(s, start, cnt) == SubSeq(s, start + 1, start + cnt)

\* A block expression: its rows when well-formed, g otherwise.
BlockOr(s, start, cnt, g) ==
  IF BlockValid(Len(s), start, cnt) THEN Block(s, start, cnt) ELSE g

NoSplitter == [status |-> "none", train_ratio_ |-> 0, val_ratio_ |-> 0,
               test_ratio_ |-> 0]

NoResult == [op |-> "none"]

\* --------------------------------------------------------------- DataSplitter
RatiosAccepted(tr, vr, te) ==
  /\ ~(Abs(tr + vr + te - RatioScale) > RatioTolerance)
  /\ ~(tr <= 0 \/ vr <= 0 \/ te <= 0)

Construct(tr, vr, te) ==
  /\ splitter' = IF RatiosAccepted(tr, vr, te)
                 THEN [status |-> "ok", train_ratio_ |-> tr,
                       val_ratio_ |-> vr, test_ratio_ |-> te]
                 ELSE NoSplitter
  /\ result' = [op |-> "construct",
                status |-> IF RatiosAccepted(tr, vr, te) THEN "ok" ELSE "error",
                train_ratio |-> tr, val_ratio |-> vr, test_ratio |-> te]
  /\ UNCHANGED <<pp, fe, ti>>

SplitTrainEnd(n, tr) ==
  LET train_end == TruncMul(n, tr)
  IN IF train_end < 1 THEN 1 ELSE train_end

SplitValEnd(n, tr, vr) ==
  LET train_end0 == TruncMul(n, tr)
      val_end0 == train_end0 + TruncMul(n, vr)
      train_end == SplitTrainEnd(n, tr)
      val_end1 == IF val_end0 <= train_end THEN train_end + 1 ELSE val_end0
  IN IF val_end1 >= n THEN n - 1 ELSE val_end1

SplitRejected(n, ylen) == n = 0 \/ n < MinSplitRows \/ n # ylen

SplitBlocksValid(n, ylen, a, b) ==
  /\ BlockValid(n, 0, a) /\ BlockValid(n, a, b - a) /\ BlockValid(n, b, n - b)
  /\ BlockValid(ylen, 0, a) /\ BlockValid(ylen, a, b - a)
  /\ BlockValid(ylen, b, n - b)

SplitResult(n, ylen, status, a, b, g) ==
  [op |-> "split", n |-> n, ylen |-> ylen, status |-> status,
   train_end |-> a, val_end |-> b,
   train |-> BlockOr(XData(n), 0, a, g),
   val |-> BlockOr(XData(n), a, b - a, g),
   test |-> BlockOr(XData(n), b, n - b, g),
   train_target |-> BlockOr(YData(ylen), 0, a, g),
   val_target |-> BlockOr(YData(ylen), a, b - a, g),
   test_target |-> BlockOr(YData(ylen), b, n - b, g)]

SplitError(n, ylen, status) ==
  [op |-> "split", n |-> n, ylen |-> ylen, status |-> status,
   train_end |-> 0, val_end |-> 0,
   train |-> << >>, val |-> << >>, test |-> << >>,
   train_target |-> << >>, val_target |-> << >>, test_target |-> << >>]

Split(n, ylen) ==
  /\ splitter.status = "ok"
  /\ LET a == SplitTrainEnd(n, splitter.train_ratio_)
         b == SplitValEnd(n, splitter.train_ratio_, splitter.val_ratio_)
     IN IF SplitRejected(n, ylen)
        THEN result' = SplitError(n, ylen, "error")
        ELSE IF SplitBlocksValid(n, ylen, a, b)
        THEN result' = SplitResult(n, ylen, "ok", a, b, << >>)
        ELSE \/ result' = SplitError(n, ylen, "abort")
             \/ \E g \in UBSlices : result' = SplitResult(n, ylen, "ok", a, b, g)
  /\ UNCHANGED <<splitter, pp, fe, ti>>

\* std::optional<int> min_train_size
Nullopt == [has |-> FALSE, v |-> 0]

Some(k) == [has |-> TRUE, v |-> k]

ValueOr(opt, d) == IF opt.has THEN opt.v ELSE d

\* static_cast<int>(n * 0.3)
DefaultMinTrain(n) == (n * DefaultTrainTenths) \div 10

WalkMinTrain(n, min_train_size) == ValueOr(min_train_size, DefaultMinTrain(n))

\* remaining / n_splits, evaluated only once n_splits >= 2 and remaining > 0
WalkTestSize(n, n_splits, min_train) == (n - min_train) \div n_splits

WalkRejected(n, n_splits, min_train_size) ==
  \/ n = 0
  \/ n_splits < 2
  \/ WalkMinTrain(n, min_train_size) >= n
  \/ WalkTestSize(n, n_splits, WalkMinTrain(n, min_train_size)) < 1

FoldBlocksValid(n, ylen, train_end, val_end) ==
  /\ BlockValid(n, 0, train_end)
  /\ BlockValid(ylen, 0, train_end)
  /\ BlockValid(n, train_end, val_end - train_end)
  /\ BlockValid(ylen, train_end, val_end - train_end)

MakeFold(n, ylen, train_end, val_end, g) ==
  [train_end |-> train_end, val_end |-> val_end,
   train_X |-> BlockOr(XData(n), 0, train_end, g),
   train_y |-> BlockOr(YData(ylen), 0, train_end, g),
   val_X |-> BlockOr(XData(n), train_end, val_end - train_end, g),
   val_y |-> BlockOr(YData(ylen), train_end, val_end - train_end, g)]

\* The fold loop, with its early break.
RECURSIVE WalkLoop(_, _, _, _, _, _, _, _)
WalkLoop(n, ylen, n_splits, min_train, test_size, i, folds, g) ==
  IF ~(i < n_splits) THEN folds
  ELSE LET train_end == min_train + i * test_size
           val_end == Min(train_end + test_size, n)
       IN IF val_end <= train_end THEN folds
          ELSE WalkLoop(n, ylen, n_splits, min_train, test_size, i + 1,
                        Append(folds, MakeFold(n, ylen, train_end, val_end, g)),
                        g)

WalkResult(n, ylen, n_splits, min_train_size, status, folds) ==
  [op |-> "walk_forward_splits", n |-> n, ylen |-> ylen,
   n_splits |-> n_splits, min_train_size |-> min_train_size,
   status |-> status, folds |-> folds]

WalkForwardSplits(n, ylen, n_splits, min_train_size) ==
  /\ splitter.status = "ok"
  /\ LET min_train == WalkMinTrain(n, min_train_size)
         test_size == WalkTestSize(n, n_splits, min_train)
         folds == WalkLoop(n, ylen, n_splits, min_train, test_size, 0,
                           << >>, << >>)
         wellFormed == \A k \in 1..Len(folds) :
                         FoldBlocksValid(n, ylen, folds[k].train_end,
                                         folds[k].val_end)
     IN IF WalkRejected(n, n_splits, min_train_size)
        THEN result' = WalkResult(n, ylen, n_splits, min_train_size,
                                  "error", << >>)
        ELSE IF wellFormed
        THEN result' = WalkResult(n, ylen, n_splits, min_train_size, "ok",
                                  folds)
        ELSE \/ result' = WalkResult(n, ylen, n_splits, min_train_size,
                                     "abort", << >>)
             \/ \E g \in UBSlices :
                  result' = WalkResult(n, ylen, n_splits, min_train_size, "ok",
                                       WalkLoop(n, ylen, n_splits, min_train,
                                                test_size, 0, << >>, g))
  /\ UNCHANGED <<splitter, pp, fe, ti>>

\* verify_no_leakage with the comparison weakened to >, so that equal
\* timestamps (the same row on both sides) pass as leak-free.
verify_no_leakage_strict_gt(timestamps, train_end, test_start) ==
  IF Len(timestamps) = 0 \/ train_end < 0 \/ test_start < 0 THEN TRUE
  ELSE IF train_end >= Len(timestamps) \/ test_start >= Len(timestamps)
  THEN TRUE
  ELSE ~(timestamps[train_end + 1] > timestamps[test_start + 1])

\* static: needs no DataSplitter instance
verify_no_leakage(timestamps, train_end, test_start) ==
  IF Len(timestamps) = 0 \/ train_end < 0 \/ test_start < 0 THEN TRUE
  ELSE IF train_end >= Len(timestamps) \/ test_start >= Len(timestamps)
  THEN TRUE
  ELSE LET has_leakage == timestamps[train_end + 1] >= timestamps[test_start + 1]
       IN ~has_leakage

VerifyNoLeakage(timestamps, train_end, test_start) ==
  /\ result' = [op |-> "verify_no_leakage", timestamps |-> timestamps,
                train_end |-> train_end, test_start |-> test_start,
                ret |-> verify_no_leakage(timestamps, train_end, test_start)]
  /\ UNCHANGED <<splitter, pp, fe, ti>>


\* ------------------------------------------------------------ double values
\* A finite double is modelled exactly as (p + q*sqrt(r)) / d with integers
\* p, q, d > 0 and a square-free r (q = 0 and r = 1 for a rational); the
\* other kinds are the IEEE values the code produces: NaN, +-infinity and
\* numeric_limits<double>::max() / lowest().
RECURSIVE GCD(_, _)
GCD(a, b) == IF b = 0 THEN a ELSE GCD(b, a % b)

Sgn(x) == IF x > 0 THEN 1 ELSE IF x < 0 THEN 0 - 1 ELSE 0

\* the largest s whose square divides n (n >= 1)
SquarePart(n) ==
  CHOOSE s \in 1..n :
    /\ n % (s * s) = 0
    /\ \A t \in (s + 1)..n : (t * t > n) \/ (n % (t * t) # 0)

Special(kind) == [k |-> kind, p |-> 0, q |-> 0, r |-> 1, d |-> 1]

NaN == Special("nan")

PosInf == Special("inf")

NegInf == Special("ninf")

DblMax == Special("max")

DblLowest == Special("lowest")

\* a value the representation cannot hold (never reached by the inputs used)
Unrep == Special("unrep")

\* the normal form of (p1 + q1*sqrt(r1)) / d0 for a square-free r1:
\* a positive denominator and no common factor
FinReduced(p1, q1, r1, d0, g) ==
  [k |-> "fin", p |-> (Sgn(d0) * p1) \div g, q |-> (Sgn(d0) * q1) \div g,
   r |-> r1, d |-> Abs(d0) \div g]

FinSquareFree(p1, q1, r1, d0) ==
  FinReduced(p1, q1, r1, d0, GCD(GCD(Abs(p1), Abs(q1)), Abs(d0)))

\* s is the square part of r0
FinSurd(p0, q0, r0, d0, s) ==
  IF r0 = s * s THEN FinSquareFree(p0 + q0 * s, 0, 1, d0)
  ELSE FinSquareFree(p0, q0 * s, r0 \div (s * s), d0)

Fin(p0, q0, r0, d0) ==
  IF q0 = 0 THEN FinSquareFree(p0, 0, 1, d0)
  ELSE FinSurd(p0, q0, r0, d0, SquarePart(r0))

D(i) == [k |-> "fin", p |-> i, q |-> 0, r |-> 1, d |-> 1]

IsNaN(x) == x.k = "nan"

IsFin(x) == x.k = "fin"

\* sign of a finite value
SignFin(x) ==
  IF x.q = 0 THEN Sgn(x.p)
  ELSE IF x.p = 0 THEN Sgn(x.q)
  ELSE IF Sgn(x.p) = Sgn(x.q) THEN Sgn(x.p)
  ELSE IF x.p * x.p > x.q * x.q * x.r THEN Sgn(x.p) ELSE Sgn(x.q)

Rank(x) == CASE x.k = "ninf" -> 0 - 2
             [] x.k = "lowest" -> 0 - 1
             [] x.k = "fin" -> 0
             [] x.k = "max" -> 1
             [] x.k = "inf" -> 2
             [] OTHER -> 0

FromRank(n) == IF n >= 2 THEN PosInf
               ELSE IF n = 1 THEN DblMax
               ELSE IF n = 0 - 1 THEN DblLowest
               ELSE NegInf

DNeg(x) == IF IsFin(x) THEN Fin(0 - x.p, 0 - x.q, x.r, x.d)
           ELSE IF x.k \in {"nan", "unrep"} THEN x
           ELSE FromRank(0 - Rank(x))

SameField(x, y) == x.q = 0 \/ y.q = 0 \/ x.r = y.r

FieldOf(x, y) == IF x.q # 0 THEN x.r ELSE y.r

DAdd(x, y) ==
  IF IsNaN(x) \/ IsNaN(y) THEN NaN
  ELSE IF x.k = "unrep" \/ y.k = "unrep" THEN Unrep
  ELSE IF IsFin(x) /\ IsFin(y)
  THEN IF SameField(x, y)
       THEN Fin(x.p * y.d + y.p * x.d, x.q * y.d + y.q * x.d, FieldOf(x, y),
                x.d * y.d)
       ELSE Unrep
  ELSE IF Abs(Rank(x)) = 2 \/ Abs(Rank(y)) = 2
  THEN IF Rank(x) + Rank(y) = 0 THEN NaN
       ELSE IF Abs(Rank(x)) = 2 THEN x ELSE y
  ELSE \* max / lowest with a finite value or with each other
       IF Rank(x) + Rank(y) = 0 THEN D(0)
       ELSE IF Rank(x) = Rank(y) THEN FromRank(2 * Rank(x))
       ELSE IF IsFin(x) THEN y ELSE x

DSub(x, y) == DAdd(x, DNeg(y))

DLess(x, y) ==
  IF IsNaN(x) \/ IsNaN(y) THEN FALSE
  ELSE IF IsFin(x) /\ IsFin(y) THEN SignFin(DSub(x, y)) < 0
  ELSE Rank(x) < Rank(y)

DMul(x, y) ==
  IF IsNaN(x) \/ IsNaN(y) THEN NaN
  ELSE IF x.k = "unrep" \/ y.k = "unrep" THEN Unrep
  ELSE IF IsFin(x) /\ IsFin(y)
  THEN IF SameField(x, y)
       THEN Fin(x.p * y.p + x.q * y.q * FieldOf(x, y),
                x.p * y.q + x.q * y.p, FieldOf(x, y), x.d * y.d)
       ELSE IF x.p = 0 /\ y.p = 0
       THEN Fin(0, x.q * y.q, x.r * y.r, x.d * y.d)
       ELSE Unrep
  ELSE IF IsFin(x) /\ x = D(1) THEN y
  ELSE IF IsFin(y) /\ y = D(1) THEN x
  ELSE IF IsFin(x) /\ x = D(0 - 1) THEN DNeg(y)
  ELSE IF IsFin(y) /\ y = D(0 - 1) THEN DNeg(x)
  ELSE IF IsFin(x) /\ Abs(Rank(y)) = 2
  THEN IF SignFin(x) = 0 THEN NaN ELSE FromRank(SignFin(x) * Rank(y))
  ELSE IF IsFin(y) /\ Abs(Rank(x)) = 2
  THEN IF SignFin(y) = 0 THEN NaN ELSE FromRank(SignFin(y) * Rank(x))
  ELSE IF Abs(Rank(x)) = 2 /\ Abs(Rank(y)) = 2
  THEN FromRank(Sgn(Rank(x)) * Rank(y))
  ELSE Unrep

\* 1 / y for a finite y # 0
DInv(y) ==
  LET den == y.p * y.p - y.q * y.q * y.r
  IN Fin(y.d * y.p * Sgn(den), 0 - (y.d * y.q * Sgn(den)), y.r, Abs(den))

DDiv(x, y) ==
  IF IsNaN(x) \/ IsNaN(y) THEN NaN
  ELSE IF x.k = "unrep" \/ y.k = "unrep" THEN Unrep
  ELSE IF IsFin(y) /\ SignFin(y) = 0
  THEN IF IsFin(x)
       THEN IF SignFin(x) = 0 THEN NaN
            ELSE IF SignFin(x) > 0 THEN PosInf ELSE NegInf
       ELSE FromRank(2 * Sgn(Rank(x)))
  ELSE IF IsFin(y) THEN DMul(x, DInv(y))
  ELSE IF IsFin(x) /\ Abs(Rank(y)) = 2 THEN D(0)
  ELSE IF Abs(Rank(x)) = 2 /\ Abs(Rank(y)) = 2 THEN NaN
  ELSE Unrep

DSqrt(x) ==
  IF IsNaN(x) THEN NaN
  ELSE IF x.k = "inf" THEN PosInf
  ELSE IF ~IsFin(x) THEN NaN
  ELSE IF x.q # 0 THEN Unrep
  ELSE IF x.p < 0 THEN NaN
  ELSE IF x.p = 0 THEN D(0)
  ELSE Fin(0, 1, x.p * x.d, x.d)

\* std::min(a, b), std::max(a, b), std::clamp(v, lo, hi)
DMin(a, b) == IF DLess(b, a) THEN b ELSE a

DMax(a, b) == IF DLess(a, b) THEN b ELSE a

DClamp(v, lo, hi) == IF DLess(v, lo) THEN lo ELSE IF DLess(hi, v) THEN hi ELSE v

\* x < 1e-12 and x > 1e-12.  Every positive value these tests see is a
\* rational or a pure surd with integer parts below 2^31, hence above 1e-12.
BelowMinScale(x) ==
  IF IsFin(x) THEN SignFin(x) <= 0 ELSE x.k \in {"ninf", "lowest"}

AboveMinScale(x) ==
  IF IsFin(x) THEN SignFin(x) > 0 ELSE x.k \in {"inf", "max"}


\* x == 0.0
IsZero(x) == IsFin(x) /\ SignFin(x) = 0

\* std::isfinite
IsFinite(x) == x.k \in {"fin", "max", "lowest"}

\* std::abs
DAbs(x) == IF IsFin(x) THEN (IF SignFin(x) < 0 THEN DNeg(x) ELSE x)
           ELSE IF x.k \in {"nan", "unrep"} THEN x
           ELSE FromRank(Abs(Rank(x)))

\* --------------------------------------------------------------- Preprocessor
\* Eigen::MatrixXd: a column count and a sequence of rows.
Matrix(ncols, rowseq) == [cols |-> ncols, rows |-> rowseq]

NumRows(X) == Len(X.rows)

Cell(X, r, c) == X.rows[r + 1][c + 1]

Column(X, c) == [r \in 1..NumRows(X) |-> X.rows[r][c + 1]]

NonNaN(col) == SelectSeq(col, LAMBDA v : ~IsNaN(v))

RECURSIVE SumSeq(_)
SumSeq(vals) == IF vals = << >> THEN D(0)
                ELSE DAdd(SumSeq(SubSeq(vals, 1, Len(vals) - 1)),
                          vals[Len(vals)])

\* std::sort on doubles
Sorted(vals) == SortSeq(vals, LAMBDA a, b : DLess(a, b))

PreprocessorConfig(scaler, missing, method, treatment, iqrMult, zThr, excl) ==
  [scaler_type |-> scaler, missing_strategy |-> missing,
   outlier_method |-> method, outlier_treatment |-> treatment,
   iqr_multiplier |-> iqrMult, zscore_threshold |-> zThr,
   exclude_from_scaling |-> excl]

\* PreprocessorConfig{}: the header's member initialisers
DefaultConfig == PreprocessorConfig("robust", "ffill", "iqr", "clip", D(3), D(3),
                                    << >>)

\* Preprocessor::Preprocessor(config)
NewPreprocessor(config) ==
  [config_ |-> config, fitted_ |-> FALSE, n_features_ |-> 0,
   mean_ |-> << >>, std_ |-> << >>, median_ |-> << >>, iqr_ |-> << >>,
   min_ |-> << >>, range_ |-> << >>,
   lower_bounds_ |-> << >>, upper_bounds_ |-> << >>,
   scalable_cols_ |-> << >>]

Excluded(config, c) ==
  \E i \in 1..Len(config.exclude_from_scaling) :
    config.exclude_from_scaling[i] = c

RECURSIVE ScalableFrom(_, _, _)
ScalableFrom(config, c, total_cols) ==
  IF ~(c < total_cols) THEN << >>
  ELSE IF Excluded(config, c) THEN ScalableFrom(config, c + 1, total_cols)
  ELSE <<c>> \o ScalableFrom(config, c + 1, total_cols)

compute_scalable_cols(config, total_cols) == ScalableFrom(config, 0, total_cols)

RECURSIVE FFillFrom(_, _)
FFillFrom(col, r) ==
  IF ~(r < Len(col)) THEN col
  ELSE FFillFrom(IF IsNaN(col[r + 1]) THEN [col EXCEPT ![r + 1] = col[r]]
                 ELSE col, r + 1)

RECURSIVE BFillFrom(_, _)
BFillFrom(col, r) ==
  IF ~(r >= 0) THEN col
  ELSE BFillFrom(IF IsNaN(col[r + 1]) THEN [col EXCEPT ![r + 1] = col[r + 2]]
                 ELSE col, r - 1)

MeanFill(col) ==
  LET vals == NonNaN(col)
      count == Len(vals)
  IN IF count > 0
     THEN LET mean == DDiv(SumSeq(vals), D(count))
          IN [r \in 1..Len(col) |-> IF IsNaN(col[r]) THEN mean ELSE col[r]]
     ELSE col

\* the gap between rows last_valid and r, filled on the straight line
FillGap(col, last_valid, r) ==
  LET start_val == col[last_valid + 1]
      end_val == col[r + 1]
      gap == r - last_valid
  IN [i \in 1..Len(col) |->
        IF last_valid + 1 < i /\ i < r + 1
        THEN DAdd(start_val,
                  DDiv(DMul(DSub(end_val, start_val), D(i - 1 - last_valid)),
                       D(gap)))
        ELSE col[i]]

RECURSIVE InterpolateFrom(_, _, _)
InterpolateFrom(col, r, last_valid) ==
  IF ~(r < Len(col)) THEN col
  ELSE IF ~IsNaN(col[r + 1])
  THEN InterpolateFrom(IF last_valid >= 0 /\ r - last_valid > 1
                       THEN FillGap(col, last_valid, r) ELSE col,
                       r + 1, r)
  ELSE InterpolateFrom(col, r + 1, last_valid)

HandleMissingColumn(config, col) ==
  IF config.missing_strategy = "ffill" THEN FFillFrom(col, 1)
  ELSE IF config.missing_strategy = "bfill" THEN BFillFrom(col, Len(col) - 2)
  ELSE IF config.missing_strategy = "mean" THEN MeanFill(col)
  ELSE IF config.missing_strategy = "interpolate"
  THEN InterpolateFrom(col, 0, 0 - 1)
  ELSE col

InSeq(c, cols) == \E i \in 1..Len(cols) : cols[i] = c

\* X with column c replaced by columns[c + 1]
MapColumns(X, columns) ==
  [X EXCEPT !.rows =
     [r \in 1..NumRows(X) |-> [i \in 1..X.cols |-> columns[i][r]]]]

handle_missing(config, X) ==
  MapColumns(X, [i \in 1..X.cols |->
                   HandleMissingColumn(config, Column(X, i - 1))])

IqrLower(config, vals) ==
  LET sorted == Sorted(vals)
      n == Len(sorted)
      q1 == sorted[(n \div 4) + 1]
      q3 == sorted[((3 * n) \div 4) + 1]
      iqr == DSub(q3, q1)
  IN DSub(q1, DMul(config.iqr_multiplier, iqr))

IqrUpper(config, vals) ==
  LET sorted == Sorted(vals)
      n == Len(sorted)
      q1 == sorted[(n \div 4) + 1]
      q3 == sorted[((3 * n) \div 4) + 1]
      iqr == DSub(q3, q1)
  IN DAdd(q3, DMul(config.iqr_multiplier, iqr))

MeanOf(vals) == DDiv(SumSeq(vals), D(Len(vals)))

SumSqDev(vals, mean) ==
  SumSeq([i \in 1..Len(vals) |-> DMul(DSub(vals[i], mean), DSub(vals[i], mean))])

\* population standard deviation (denominator n), as the z-score bounds use
PopStd(vals) == DSqrt(DDiv(SumSqDev(vals, MeanOf(vals)), D(Len(vals))))

LowerBound(config, vals) ==
  IF vals = << >> THEN NegInf
  ELSE IF config.outlier_method = "iqr" THEN IqrLower(config, vals)
  ELSE IF config.outlier_method = "zscore"
  THEN DSub(MeanOf(vals), DMul(config.zscore_threshold, PopStd(vals)))
  ELSE NegInf

UpperBound(config, vals) ==
  IF vals = << >> THEN PosInf
  ELSE IF config.outlier_method = "iqr" THEN IqrUpper(config, vals)
  ELSE IF config.outlier_method = "zscore"
  THEN DAdd(MeanOf(vals), DMul(config.zscore_threshold, PopStd(vals)))
  ELSE PosInf

\* the preprocessor with lower_bounds_ / upper_bounds_ fitted on X
fit_outlier_bounds(pre, X) ==
  [pre EXCEPT
     !.lower_bounds_ = [i \in 1..X.cols |->
        IF InSeq(i - 1, pre.scalable_cols_)
        THEN LowerBound(pre.config_, NonNaN(Column(X, i - 1))) ELSE NegInf],
     !.upper_bounds_ = [i \in 1..X.cols |->
        IF InSeq(i - 1, pre.scalable_cols_)
        THEN UpperBound(pre.config_, NonNaN(Column(X, i - 1))) ELSE PosInf]]

\* treat_outliers clamping from above only
treat_outliers_upper_only(pre, X) ==
  LET f(c, col) ==
        IF pre.config_.outlier_treatment \in {"clip", "winsorize"}
        THEN [r \in 1..Len(col) |->
                IF ~IsNaN(col[r])
                THEN DMin(col[r], pre.upper_bounds_[c + 1])
                ELSE col[r]]
        ELSE col
  IN MapColumns(X, [i \in 1..X.cols |->
                      IF InSeq(i - 1, pre.scalable_cols_)
                      THEN f(i - 1, Column(X, i - 1))
                      ELSE Column(X, i - 1)])

treat_outliers(pre, X) ==
  LET f(c, col) ==
        IF pre.config_.outlier_treatment \in {"clip", "winsorize"}
        THEN [r \in 1..Len(col) |->
                IF ~IsNaN(col[r])
                THEN DClamp(col[r], pre.lower_bounds_[c + 1],
                            pre.upper_bounds_[c + 1])
                ELSE col[r]]
        ELSE col
  IN MapColumns(X, [i \in 1..X.cols |->
                      IF InSeq(i - 1, pre.scalable_cols_)
                      THEN f(i - 1, Column(X, i - 1))
                      ELSE Column(X, i - 1)])

\* sample standard deviation with the scale floor
StandardStd(vals) ==
  LET cnt == Len(vals)
      s == IF cnt > 1
           THEN DSqrt(DDiv(SumSqDev(vals, MeanOf(vals)), D(cnt - 1)))
           ELSE D(1)
  IN IF BelowMinScale(s) THEN D(1) ELSE s

\* the interquartile range stored without the 1e-12 floor
RobustIqrNoFloor(vals) ==
  LET sorted == Sorted(vals)
      n == Len(sorted)
      q1 == sorted[(n \div 4) + 1]
      q3 == sorted[((3 * n) \div 4) + 1]
  IN DSub(q3, q1)

RobustIqr(vals) ==
  LET sorted == Sorted(vals)
      n == Len(sorted)
      q1 == sorted[(n \div 4) + 1]
      q3 == sorted[((3 * n) \div 4) + 1]
      iqr == DSub(q3, q1)
  IN IF BelowMinScale(iqr) THEN D(1) ELSE iqr

RobustMedian(vals) == Sorted(vals)[(Len(vals) \div 2) + 1]

RECURSIVE FoldMin(_, _)
FoldMin(lo, vals) ==
  IF vals = << >> THEN lo ELSE FoldMin(DMin(lo, Head(vals)), Tail(vals))

RECURSIVE FoldMax(_, _)
FoldMax(hi, vals) ==
  IF vals = << >> THEN hi ELSE FoldMax(DMax(hi, Head(vals)), Tail(vals))

MinMaxRange(vals) ==
  LET lo == FoldMin(DblMax, vals)
      hi == FoldMax(DblLowest, vals)
  IN IF AboveMinScale(DSub(hi, lo)) THEN DSub(hi, lo) ELSE D(1)

\* the preprocessor with the configured scaler's statistics fitted on X
fit_scaler(pre, X) ==
  LET vals(i) == NonNaN(Column(X, i - 1))
      scal(i) == InSeq(i - 1, pre.scalable_cols_)
  IN IF pre.config_.scaler_type = "standard"
     THEN [pre EXCEPT
             !.mean_ = [i \in 1..X.cols |->
                IF scal(i) /\ vals(i) # << >> THEN MeanOf(vals(i)) ELSE D(0)],
             !.std_ = [i \in 1..X.cols |->
                IF scal(i) /\ vals(i) # << >> THEN StandardStd(vals(i))
                ELSE D(1)]]
     ELSE IF pre.config_.scaler_type = "robust"
     THEN [pre EXCEPT
             !.median_ = [i \in 1..X.cols |->
                IF scal(i) /\ vals(i) # << >> THEN RobustMedian(vals(i))
                ELSE D(0)],
             !.iqr_ = [i \in 1..X.cols |->
                IF scal(i) /\ vals(i) # << >> THEN RobustIqr(vals(i))
                ELSE D(1)]]
     ELSE IF pre.config_.scaler_type = "minmax"
     THEN [pre EXCEPT
             !.min_ = [i \in 1..X.cols |->
                IF scal(i) THEN FoldMin(DblMax, vals(i)) ELSE D(0)],
             !.range_ = [i \in 1..X.cols |->
                IF scal(i) THEN MinMaxRange(vals(i)) ELSE D(1)]]
     ELSE pre

\* the minmax scaling without the subtraction of the fitted minimum
ScaleCellNoShift(pre, c, v) ==
  IF pre.config_.scaler_type = "standard"
  THEN DDiv(DSub(v, pre.mean_[c + 1]), pre.std_[c + 1])
  ELSE IF pre.config_.scaler_type = "robust"
  THEN DDiv(DSub(v, pre.median_[c + 1]), pre.iqr_[c + 1])
  ELSE IF pre.config_.scaler_type = "minmax"
  THEN DDiv(v, pre.range_[c + 1])
  ELSE v

ScaleCell(pre, c, v) ==
  IF pre.config_.scaler_type = "standard"
  THEN DDiv(DSub(v, pre.mean_[c + 1]), pre.std_[c + 1])
  ELSE IF pre.config_.scaler_type = "robust"
  THEN DDiv(DSub(v, pre.median_[c + 1]), pre.iqr_[c + 1])
  ELSE IF pre.config_.scaler_type = "minmax"
  THEN DDiv(DSub(v, pre.min_[c + 1]), pre.range_[c + 1])
  ELSE v

apply_scaler(pre, X) ==
  LET f(c, col) == [r \in 1..Len(col) |->
                      IF IsNaN(col[r]) THEN col[r]
                      ELSE ScaleCell(pre, c, col[r])]
  IN MapColumns(X, [i \in 1..X.cols |->
                      IF InSeq(i - 1, pre.scalable_cols_)
                      THEN f(i - 1, Column(X, i - 1))
                      ELSE Column(X, i - 1)])

UnscaleCell(pre, c, v) ==
  IF pre.config_.scaler_type = "standard"
  THEN DAdd(DMul(v, pre.std_[c + 1]), pre.mean_[c + 1])
  ELSE IF pre.config_.scaler_type = "robust"
  THEN DAdd(DMul(v, pre.iqr_[c + 1]), pre.median_[c + 1])
  ELSE IF pre.config_.scaler_type = "minmax"
  THEN DAdd(DMul(v, pre.range_[c + 1]), pre.min_[c + 1])
  ELSE v

apply_inverse_scaler(pre, X) ==
  LET f(c, col) == [r \in 1..Len(col) |->
                      IF IsNaN(col[r]) THEN col[r]
                      ELSE UnscaleCell(pre, c, col[r])]
  IN MapColumns(X, [i \in 1..X.cols |->
                      IF InSeq(i - 1, pre.scalable_cols_)
                      THEN f(i - 1, Column(X, i - 1))
                      ELSE Column(X, i - 1)])

\* fit's effect on the object when X has rows
FitState(pre, X) ==
  LET p1 == [pre EXCEPT !.n_features_ = X.cols,
                        !.scalable_cols_ =
                           compute_scalable_cols(pre.config_, X.cols)]
      clean == handle_missing(pre.config_, X)
      p2 == IF pre.config_.outlier_method # "" THEN fit_outlier_bounds(p1, clean)
            ELSE p1
      p3 == IF pre.config_.scaler_type # "" THEN fit_scaler(p2, clean) ELSE p2
  IN [p3 EXCEPT !.fitted_ = TRUE]

\* transform's value once the fitted check has passed and X has rows
TransformValue(pre, X) ==
  LET r1 == handle_missing(pre.config_, X)
      r2 == IF pre.config_.outlier_method # "" THEN treat_outliers(pre, r1)
            ELSE r1
  IN IF pre.config_.scaler_type # "" THEN apply_scaler(pre, r2) ELSE r2

\* result(r, c) is read or written for a scalable column c the matrix lacks
ColumnOutOfRange(pre, X) ==
  \E i \in 1..Len(pre.scalable_cols_) : pre.scalable_cols_[i] >= X.cols

TransformUndefined(pre, X) ==
  /\ ColumnOutOfRange(pre, X)
  /\ \/ /\ pre.config_.outlier_method # ""
        /\ pre.config_.outlier_treatment \in {"clip", "winsorize"}
     \/ pre.config_.scaler_type # ""

\* what a caller may find in a matrix written through an out-of-range index
JunkMatrix == Matrix(1, <<<<D(Junk)>>>>)

CallResult(opname, X, status, Y) ==
  [op |-> opname, X |-> X, status |-> status, Y |-> Y]

NoMatrix == Matrix(0, << >>)

\* fit recording the feature count and scalable columns ahead of the
\* empty-input test
FitCommitsBeforeCheck(X) ==
  /\ IF NumRows(X) = 0
     THEN /\ result' = CallResult("fit", X, "error", NoMatrix)
          /\ pp' = [pp EXCEPT !.n_features_ = X.cols,
                              !.scalable_cols_ =
                                 compute_scalable_cols(pp.config_, X.cols)]
     ELSE /\ pp' = FitState(pp, X)
          /\ result' = CallResult("fit", X, "ok", NoMatrix)
  /\ UNCHANGED <<splitter, fe, ti>>

Fit(X) ==
  /\ IF NumRows(X) = 0
     THEN /\ result' = CallResult("fit", X, "error", NoMatrix)
          /\ pp' = pp
     ELSE /\ pp' = FitState(pp, X)
          /\ result' = CallResult("fit", X, "ok", NoMatrix)
  /\ UNCHANGED <<splitter, fe, ti>>

\* transform with the empty-input return placed ahead of the fitted check
TransformEmptyFirst(X) ==
  /\ IF NumRows(X) = 0
     THEN result' = CallResult("transform", X, "ok", X)
     ELSE IF ~pp.fitted_
     THEN result' = CallResult("transform", X, "error", NoMatrix)
     ELSE IF TransformUndefined(pp, X)
     THEN \/ result' = CallResult("transform", X, "abort", NoMatrix)
          \/ result' = CallResult("transform", X, "ok", JunkMatrix)
     ELSE result' = CallResult("transform", X, "ok", TransformValue(pp, X))
  /\ UNCHANGED <<splitter, pp, fe, ti>>

Transform(X) ==
  /\ IF ~pp.fitted_
     THEN result' = CallResult("transform", X, "error", NoMatrix)
     ELSE IF NumRows(X) = 0
     THEN result' = CallResult("transform", X, "ok", X)
     ELSE IF TransformUndefined(pp, X)
     THEN \/ result' = CallResult("transform", X, "abort", NoMatrix)
          \/ result' = CallResult("transform", X, "ok", JunkMatrix)
     ELSE result' = CallResult("transform", X, "ok", TransformValue(pp, X))
  /\ UNCHANGED <<splitter, pp, fe, ti>>

\* fit_transform transforming with the parameters held before the fit
FitTransformStale(X) ==
  /\ IF NumRows(X) = 0
     THEN /\ result' = CallResult("fit_transform", X, "error", NoMatrix)
          /\ pp' = pp
     ELSE /\ pp' = FitState(pp, X)
          /\ result' = CallResult("fit_transform", X, "ok",
                                  IF pp.fitted_ THEN TransformValue(pp, X)
                                  ELSE TransformValue(FitState(pp, X), X))
  /\ UNCHANGED <<splitter, fe, ti>>

FitTransform(X) ==
  /\ IF NumRows(X) = 0
     THEN /\ result' = CallResult("fit_transform", X, "error", NoMatrix)
          /\ pp' = pp
     ELSE /\ pp' = FitState(pp, X)
          /\ result' = CallResult("fit_transform", X, "ok",
                                  TransformValue(FitState(pp, X), X))
  /\ UNCHANGED <<splitter, fe, ti>>

InverseTransform(X) ==
  /\ IF ~pp.fitted_ \/ pp.config_.scaler_type = ""
     THEN result' = CallResult("inverse_transform", X, "ok", X)
     ELSE IF NumRows(X) > 0 /\ ColumnOutOfRange(pp, X)
     THEN \/ result' = CallResult("inverse_transform", X, "abort", NoMatrix)
          \/ result' = CallResult("inverse_transform", X, "ok", JunkMatrix)
     ELSE result' = CallResult("inverse_transform", X, "ok",
                               apply_inverse_scaler(pp, X))
  /\ UNCHANGED <<splitter, pp, fe, ti>>

\* inverse_transform applied to the matrix the last transform or
\* fit_transform returned; the outcome keeps that call's input X beside the
\* scaled matrix Z and the recovered matrix Y
RoundTripResult(X, Z, status, Y) ==
  [op |-> "round_trip", X |-> X, Z |-> Z, status |-> status, Y |-> Y]

RoundTrip ==
  /\ IF ~pp.fitted_ \/ pp.config_.scaler_type = ""
     THEN result' = RoundTripResult(result.X, result.Y, "ok", result.Y)
     ELSE IF NumRows(result.Y) > 0 /\ ColumnOutOfRange(pp, result.Y)
     THEN \/ result' = RoundTripResult(result.X, result.Y, "abort", NoMatrix)
          \/ result' = RoundTripResult(result.X, result.Y, "ok", JunkMatrix)
     ELSE result' = RoundTripResult(result.X, result.Y, "ok",
                                    apply_inverse_scaler(pp, result.Y))
  /\ UNCHANGED <<splitter, pp, fe, ti>>

\* ------------------------------------------------------ TechnicalIndicators
\* An Eigen::VectorXd is a sequence; the code's index i is position i + 1.
ConstantVector(n, v) == [i \in 1..n |-> v]

\* v(i); g is what a read outside the vector yields
At(v, i, g) == IF 0 <= i /\ i < Len(v) THEN v[i + 1] ELSE g

\* conservativeResize by the columns given, each assigned to its new column
AppendColumns(matrix, columns) ==
  Matrix(matrix.cols + Len(columns),
         [r \in 1..NumRows(matrix) |->
            matrix.rows[r] \o [c \in 1..Len(columns) |-> columns[c][r]]])

\* the running sum of sma after index i has been processed (i >= period - 1)
RECURSIVE SmaSum(_, _, _)
SmaSum(data, period, i) ==
  IF i = period - 1 THEN SumSeq(SubSeq(data, 1, period))
  ELSE DAdd(SmaSum(data, period, i - 1),
            DSub(data[i + 1], data[i + 1 - period]))

sma(data, period) ==
  IF period <= 0 \/ period > Len(data) THEN ConstantVector(Len(data), NaN)
  ELSE [k \in 1..Len(data) |->
          IF k < period THEN NaN
          ELSE DDiv(SmaSum(data, period, k - 1), D(period))]

\* alpha = 2.0 / (period + 1.0)
EmaAlpha(period) == DDiv(D(2), D(period + 1))

RECURSIVE EmaAt(_, _, _)
EmaAt(data, period, i) ==
  IF i = period - 1 THEN DDiv(SumSeq(SubSeq(data, 1, period)), D(period))
  ELSE DAdd(DMul(EmaAlpha(period), data[i + 1]),
            DMul(DSub(D(1), EmaAlpha(period)), EmaAt(data, period, i - 1)))

ema(data, period) ==
  IF period <= 0 \/ period > Len(data) THEN ConstantVector(Len(data), NaN)
  ELSE [k \in 1..Len(data) |->
          IF k < period THEN NaN ELSE EmaAt(data, period, k - 1)]

\* Wilder's smoothing with alpha = 1 / period, seeded at index period with
\* the mean of vals(1..period); rsi and atr both use it
RECURSIVE WilderAt(_, _, _)
WilderAt(vals, period, i) ==
  IF i = period THEN DDiv(SumSeq(SubSeq(vals, 2, period + 1)), D(period))
  ELSE DAdd(DMul(DDiv(D(1), D(period)), vals[i + 1]),
            DMul(DSub(D(1), DDiv(D(1), D(period))),
                 WilderAt(vals, period, i - 1)))

RsiValueLossOverGain(avg_gain, avg_loss) ==
  IF IsZero(avg_loss) THEN D(100)
  ELSE DSub(D(100), DDiv(D(100), DAdd(D(1), DDiv(avg_loss, avg_gain))))

RsiValue(avg_gain, avg_loss) ==
  IF IsZero(avg_loss) THEN D(100)
  ELSE DSub(D(100), DDiv(D(100), DAdd(D(1), DDiv(avg_gain, avg_loss))))

\* gain and loss are zero at index 0
rsi(close, period) ==
  IF period <= 0 \/ period >= Len(close) THEN ConstantVector(Len(close), NaN)
  ELSE [k \in 1..Len(close) |->
          IF k - 1 < period THEN NaN
          ELSE RsiValue(
                 WilderAt([j \in 1..Len(close) |->
                             IF j = 1 THEN D(0)
                             ELSE DMax(DSub(close[j], close[j - 1]), D(0))],
                          period, k - 1),
                 WilderAt([j \in 1..Len(close) |->
                             IF j = 1 THEN D(0)
                             ELSE DMax(DNeg(DSub(close[j], close[j - 1])),
                                       D(0))],
                          period, k - 1))]

\* macd_line: the difference of the two EMAs where both are defined
MacdLine(ema_fast, ema_slow) ==
  [k \in 1..Len(ema_fast) |->
     IF ~IsNaN(ema_fast[k]) /\ ~IsNaN(ema_slow[k])
     THEN DSub(ema_fast[k], ema_slow[k]) ELSE NaN]

\* first_valid: the first index whose macd_line is not NaN, -1 if none
FirstValid(macd_line) ==
  IF \E k \in 1..Len(macd_line) : ~IsNaN(macd_line[k])
  THEN (CHOOSE k \in 1..Len(macd_line) :
          /\ ~IsNaN(macd_line[k])
          /\ \A j \in 1..(k - 1) : IsNaN(macd_line[j])) - 1
  ELSE 0 - 1

\* macd_signal(i) once the seed and the smoothing loop have run; the seed is
\* the sum of macd_line over first_valid .. first_valid + signal - 1 (no
\* term when signal <= 0) divided by signal
RECURSIVE MacdSignalAt(_, _, _, _, _)
MacdSignalAt(macd_line, first_valid, signal, i, g) ==
  IF i < 0 THEN g
  ELSE IF i < first_valid + signal - 1 THEN NaN
  ELSE IF i = first_valid + signal - 1
  THEN DDiv(SumSeq(SubSeq(macd_line, first_valid + 1, first_valid + signal)),
            D(signal))
  ELSE IF IsNaN(macd_line[i + 1]) THEN NaN
  ELSE DAdd(DMul(EmaAlpha(signal), macd_line[i + 1]),
            DMul(DSub(D(1), EmaAlpha(signal)),
                 MacdSignalAt(macd_line, first_valid, signal, i - 1, g)))

MacdSignal(macd_line, first_valid, signal, g) ==
  IF first_valid >= 0 /\ first_valid + signal <= Len(macd_line)
  THEN [k \in 1..Len(macd_line) |->
          MacdSignalAt(macd_line, first_valid, signal, k - 1, g)]
  ELSE ConstantVector(Len(macd_line), NaN)

MacdHistSum(macd_line, macd_signal) ==
  [k \in 1..Len(macd_line) |->
     IF ~IsNaN(macd_line[k]) /\ ~IsNaN(macd_signal[k])
     THEN DAdd(macd_line[k], macd_signal[k]) ELSE NaN]

MacdHist(macd_line, macd_signal) ==
  [k \in 1..Len(macd_line) |->
     IF ~IsNaN(macd_line[k]) /\ ~IsNaN(macd_signal[k])
     THEN DSub(macd_line[k], macd_signal[k]) ELSE NaN]

\* MACDResult {macd, signal, histogram}
MacdFrom(macd_line, signal, g) ==
  <<macd_line,
    MacdSignal(macd_line, FirstValid(macd_line), signal, g),
    MacdHist(macd_line,
             MacdSignal(macd_line, FirstValid(macd_line), signal, g))>>

macd(close, fast, slow, signal, g) ==
  MacdFrom(MacdLine(ema(close, fast), ema(close, slow)), signal, g)

\* macd_signal(first_valid + signal - 1) = seed writes before the vector
MacdOutOfRange(macd_line, signal) ==
  /\ FirstValid(macd_line) >= 0
  /\ FirstValid(macd_line) + signal <= Len(macd_line)
  /\ FirstValid(macd_line) + signal - 1 < 0

\* middle(i) + width * std_dev from index period - 1 on; the window
\* i - period + 1 .. i is empty for period <= 0
BollingerBand(close, middle, period, width) ==
  [k \in 1..Len(close) |->
     IF k - 1 < period - 1 THEN NaN
     ELSE DAdd(middle[k],
               DMul(width,
                    DSqrt(DDiv(SumSqDev(SubSeq(close, k - period + 1, k),
                                        middle[k]),
                               D(period)))))]

\* BollingerBandsResult {upper, middle, lower}
bollinger_bands(close, period, num_std) ==
  <<BollingerBand(close, sma(close, period), period, num_std),
    sma(close, period),
    BollingerBand(close, sma(close, period), period, DNeg(num_std))>>

true_range(high, low, close) ==
  [k \in 1..Len(high) |->
     IF k = 1 THEN NaN
     ELSE DMax(DMax(DSub(high[k], low[k]),
                    DAbs(DSub(high[k], close[k - 1]))),
               DAbs(DSub(low[k], close[k - 1])))]

atr(high, low, close, period) ==
  IF period <= 0 \/ period >= Len(high) THEN ConstantVector(Len(high), NaN)
  ELSE [k \in 1..Len(high) |->
          IF k - 1 < period THEN NaN
          ELSE WilderAt(true_range(high, low, close), period, k - 1)]

RECURSIVE ObvAt(_, _, _)
ObvAt(close, volume, i) ==
  IF i = 0 THEN D(0)
  ELSE DAdd(ObvAt(close, volume, i - 1),
            DMul(IF DLess(D(0), DSub(close[i + 1], close[i])) THEN D(1)
                 ELSE IF DLess(DSub(close[i + 1], close[i]), D(0))
                 THEN D(0 - 1) ELSE D(0),
                 volume[i + 1]))

obv(close, volume) ==
  [k \in 1..Len(close) |-> ObvAt(close, volume, k - 1)]

\* cum_tp_vol / cum_vol with the typical price (high + low + close) / 3
vwap(high, low, close, volume) ==
  [k \in 1..Len(high) |->
     IF DLess(D(0), SumSeq(SubSeq(volume, 1, k)))
     THEN DDiv(SumSeq([j \in 1..k |->
                         DMul(DDiv(DAdd(DAdd(high[j], low[j]), close[j]),
                                   D(3)),
                              volume[j])]),
               SumSeq(SubSeq(volume, 1, k)))
     ELSE NaN]

IndicatorConfig(sma_periods, ema_periods, rsi_period, macd_fast, macd_slow, macd_signal, bb_period, bb_std, atr_period) ==
  [sma_periods |-> sma_periods, ema_periods |-> ema_periods,
   rsi_period |-> rsi_period, macd_fast |-> macd_fast,
   macd_slow |-> macd_slow, macd_signal |-> macd_signal,
   bb_period |-> bb_period, bb_std |-> bb_std, atr_period |-> atr_period]

\* extras: the indicator columns in the order build_all collects them
IndicatorColumns(high, low, close, volume, config, g) ==
  [k \in 1..Len(config.sma_periods) |-> sma(close, config.sma_periods[k])]
  \o [k \in 1..Len(config.ema_periods) |-> ema(close, config.ema_periods[k])]
  \o <<rsi(close, config.rsi_period)>>
  \o macd(close, config.macd_fast, config.macd_slow, config.macd_signal, g)
  \o bollinger_bands(close, config.bb_period, config.bb_std)
  \o <<atr(high, low, close, config.atr_period),
       true_range(high, low, close),
       obv(close, volume),
       vwap(high, low, close, volume)>>

\* [ohlcv | extras]
build_all(ohlcv, config, g) ==
  AppendColumns(ohlcv,
                IndicatorColumns(Column(ohlcv, 1), Column(ohlcv, 2),
                                 Column(ohlcv, 3), Column(ohlcv, 4),
                                 config, g))

\* prefix + std::to_string(p)
PeriodNames(prefix, periods) ==
  [k \in 1..Len(periods) |-> prefix \o ToString(periods[k])]

build_all_names_ema_first(config) ==
  <<"open", "high", "low", "close", "volume">>
  \o PeriodNames("ema_", config.ema_periods)
  \o PeriodNames("sma_", config.sma_periods)
  \o <<"rsi_" \o ToString(config.rsi_period),
       "macd", "macd_signal", "macd_hist",
       "bb_upper", "bb_middle", "bb_lower",
       "atr_" \o ToString(config.atr_period),
       "true_range", "obv", "vwap">>

\* the col_names build_all assigns
build_all_names(config) ==
  <<"open", "high", "low", "close", "volume">>
  \o PeriodNames("sma_", config.sma_periods)
  \o PeriodNames("ema_", config.ema_periods)
  \o <<"rsi_" \o ToString(config.rsi_period),
       "macd", "macd_signal", "macd_hist",
       "bb_upper", "bb_middle", "bb_lower",
       "atr_" \o ToString(config.atr_period),
       "true_range", "obv", "vwap">>

\* an access outside a vector somewhere in build_all: the band loop of
\* bollinger_bands starts at i = period - 1 without a test of period
IndicatorsOutOfRange(close, config) ==
  \/ config.bb_period <= 0
  \/ MacdOutOfRange(MacdLine(ema(close, config.macd_fast),
                             ema(close, config.macd_slow)),
                    config.macd_signal)

\* ---------------------------------------------------------- FeatureEngineer
FeatureEngineerConfig(indicator_config, lags, rolling_windows, horizons, include_temporal) ==
  [indicator_config |-> indicator_config, lags |-> lags,
   rolling_windows |-> rolling_windows, horizons |-> horizons,
   include_temporal |-> include_temporal]

\* the member initialisers of FeatureEngineerConfig and IndicatorConfig
DefaultFeatureConfig ==
  FeatureEngineerConfig(
    IndicatorConfig(<<7, 14, 30, 50, 200>>, <<12, 26, 50>>, 14, 12, 26, 9,
                    20, D(2), 14),
    <<1, 6, 24>>, <<6, 20>>, <<1, 6, 24>>, TRUE)

NewFeatureEngineer(config) == [config_ |-> config]

FeatureMatrix(data, column_names, timestamps) ==
  [data |-> data, column_names |-> column_names, timestamps |-> timestamps]

\* a default-constructed FeatureMatrix: a 0 x 0 matrix and two empty lists
EmptyFeatureMatrix == FeatureMatrix(Matrix(0, << >>), << >>, << >>)

\* models::Decimal: a whole number or an infinity
Decimal(i) == [k |-> "fin", sig |-> i]

DecimalInf == [k |-> "inf", sig |-> 0]

\* boost::decimal::to_float<Decimal, double>: the whole numbers used are
\* below 2^53 and convert exactly
to_float(dec) == IF dec.k = "inf" THEN PosInf ELSE D(dec.sig)

\* CryptoPriceData; timestamp counts milliseconds since the epoch
CryptoPriceData(timestamp, open_price, high_price, low_price, close_price, volume) ==
  [timestamp |-> timestamp, open_price |-> open_price,
   high_price |-> high_price, low_price |-> low_price,
   close_price |-> close_price, volume |-> volume]

to_ohlcv_matrix(data) ==
  Matrix(5, [i \in 1..Len(data) |->
               <<to_float(data[i].open_price), to_float(data[i].high_price),
                 to_float(data[i].low_price), to_float(data[i].close_price),
                 to_float(data[i].volume)>>])

\* pct_change starting one index late
pct_change_late(data, period, g) ==
  [k \in 1..Len(data) |->
     IF k - 1 <= period \/ IsZero(At(data, k - 1 - period, g)) THEN NaN
     ELSE DDiv(DSub(data[k], At(data, k - 1 - period, g)),
               At(data, k - 1 - period, g))]

pct_change(data, period, g) ==
  [k \in 1..Len(data) |->
     IF k - 1 < period \/ IsZero(At(data, k - 1 - period, g)) THEN NaN
     ELSE DDiv(DSub(data[k], At(data, k - 1 - period, g)),
               At(data, k - 1 - period, g))]

rolling_mean(data, window) == sma(data, window)

\* the sample standard deviation of one window, 0.0 for a window of one
RollingStdValue(vals) ==
  IF Len(vals) > 1
  THEN DSqrt(DDiv(SumSqDev(vals, MeanOf(vals)), D(Len(vals) - 1)))
  ELSE D(0)

rolling_std(data, window) ==
  IF window <= 0 \/ window > Len(data) THEN ConstantVector(Len(data), NaN)
  ELSE [k \in 1..Len(data) |->
          IF k < window THEN NaN
          ELSE RollingStdValue(SubSeq(data, k - window + 1, k))]

add_returns(matrix, close, config, g) ==
  AppendColumns(matrix,
                [k \in 1..Len(config.horizons) |->
                   pct_change(close, config.horizons[k], g)])

\* close_lag and vol_lag: data(i - lag) from index lag on
LagColumn(data, lag, g) ==
  [k \in 1..Len(data) |->
     IF k - 1 < lag THEN NaN ELSE At(data, k - 1 - lag, g)]

add_lags(matrix, close, volume, config, g) ==
  AppendColumns(matrix,
                [k \in 1..(2 * Len(config.lags)) |->
                   IF k % 2 = 1
                   THEN LagColumn(close, config.lags[(k + 1) \div 2], g)
                   ELSE LagColumn(volume, config.lags[k \div 2], g)])

RollingColumn(close, volume, win, member) ==
  CASE member = 0 -> rolling_mean(close, win)
    [] member = 1 -> rolling_std(close, win)
    [] OTHER -> rolling_mean(volume, win)

RollingName(win, member) ==
  CASE member = 0 -> "roll_mean_" \o ToString(win)
    [] member = 1 -> "roll_std_" \o ToString(win)
    [] OTHER -> "roll_vol_mean_" \o ToString(win)

add_rolling_stats(matrix, close, volume, config) ==
  AppendColumns(matrix,
                [k \in 1..(3 * Len(config.rolling_windows)) |->
                   RollingColumn(close, volume,
                                 config.rolling_windows[(k - 1) \div 3 + 1],
                                 (k - 1) % 3)])

Momentum(close, h, g) ==
  [k \in 1..Len(close) |->
     IF k - 1 < h THEN NaN
     ELSE DSub(close[k], At(close, k - 1 - h, g))]

VolRatio(rm, rs) ==
  [k \in 1..Len(rm) |->
     IF ~IsNaN(rm[k]) /\ ~IsZero(rm[k]) /\ ~IsNaN(rs[k])
     THEN DDiv(rs[k], rm[k]) ELSE NaN]

HorizonColumn(close, volume, h, member, g) ==
  CASE member = 0 -> rolling_mean(close, h)
    [] member = 1 -> rolling_std(close, h)
    [] member = 2 -> rolling_mean(volume, h)
    [] member = 3 -> Momentum(close, h, g)
    [] OTHER -> VolRatio(rolling_mean(close, h), rolling_std(close, h))

HorizonName(h, member) ==
  CASE member = 0 -> "hz_roll_mean_" \o ToString(h)
    [] member = 1 -> "hz_roll_std_" \o ToString(h)
    [] member = 2 -> "hz_vol_mean_" \o ToString(h)
    [] member = 3 -> "hz_momentum_" \o ToString(h)
    [] OTHER -> "hz_vol_ratio_" \o ToString(h)

add_horizon_features(matrix, close, volume, config, g) ==
  AppendColumns(matrix,
                [k \in 1..(5 * Len(config.horizons)) |->
                   HorizonColumn(close, volume,
                                 config.horizons[(k - 1) \div 5 + 1],
                                 (k - 1) % 5, g)])

\* system_clock::to_time_t: whole seconds
to_time_t(timestamp) == timestamp \div 1000

\* tm_mon of std::gmtime for a time within 1970
TmMon(t) ==
  Cardinality({m \in 1..12 :
                 <<0, 31, 59, 90, 120, 151, 181, 212, 243, 273, 304, 334>>[m]
                   <= t \div 86400}) - 1

\* tm_hour, tm_wday (1 January 1970 was a Thursday) and tm_mon + 1
add_temporal_features(matrix, timestamps, config) ==
  IF ~config.include_temporal \/ timestamps = << >> THEN matrix
  ELSE AppendColumns(matrix,
         <<[i \in 1..Len(timestamps) |->
              D((to_time_t(timestamps[i]) \div 3600) % 24)],
           [i \in 1..Len(timestamps) |->
              D((to_time_t(timestamps[i]) \div 86400 + 4) % 7)],
           [i \in 1..Len(timestamps) |->
              D(TmMon(to_time_t(timestamps[i])) + 1)]>>)

\* result.data before the rows with NaNs are removed
FeatureData(ohlcv, close, volume, timestamps, config, g) ==
  add_temporal_features(
    add_horizon_features(
      add_rolling_stats(
        add_lags(
          add_returns(build_all(ohlcv, config.indicator_config, g),
                      close, config, g),
          close, volume, config, g),
        close, volume, config),
      close, volume, config, g),
    timestamps, config)

\* result.column_names: what build_all and the add_ functions push back
FeatureNames(timestamps, config) ==
  build_all_names(config.indicator_config)
  \o PeriodNames("ret_", config.horizons)
  \o [k \in 1..(2 * Len(config.lags)) |->
        IF k % 2 = 1
        THEN "close_lag_" \o ToString(config.lags[(k + 1) \div 2])
        ELSE "vol_lag_" \o ToString(config.lags[k \div 2])]
  \o [k \in 1..(3 * Len(config.rolling_windows)) |->
        RollingName(config.rolling_windows[(k - 1) \div 3 + 1], (k - 1) % 3)]
  \o [k \in 1..(5 * Len(config.horizons)) |->
        HorizonName(config.horizons[(k - 1) \div 5 + 1], (k - 1) % 5)]
  \o (IF ~config.include_temporal \/ timestamps = << >> THEN << >>
      ELSE <<"hour", "dayofweek", "month">>)

\* valid_indices, as positions in the row sequence: the rows whose cells
\* all pass isFinite
ValidIndices(matrix) ==
  SelectSeq([i \in 1..NumRows(matrix) |-> i],
            LAMBDA i : \A c \in 1..Len(matrix.rows[i]) :
                         IsFinite(matrix.rows[i][c]))

FilterRowsStaleStamps(matrix, column_names, timestamps, valid_indices) ==
  IF Len(valid_indices) < NumRows(matrix)
  THEN FeatureMatrix(
         Matrix(matrix.cols,
                [i \in 1..Len(valid_indices) |-> matrix.rows[valid_indices[i]]]),
         column_names,
         [i \in 1..Len(valid_indices) |-> timestamps[i]])
  ELSE FeatureMatrix(matrix, column_names, timestamps)

\* the rows and timestamps kept; both are rebuilt only if a row was dropped
FilterRows(matrix, column_names, timestamps, valid_indices) ==
  IF Len(valid_indices) < NumRows(matrix)
  THEN FeatureMatrix(
         Matrix(matrix.cols,
                [i \in 1..Len(valid_indices) |-> matrix.rows[valid_indices[i]]]),
         column_names,
         [i \in 1..Len(valid_indices) |-> timestamps[valid_indices[i]]])
  ELSE FeatureMatrix(matrix, column_names, timestamps)

BuildFrom(matrix, column_names, timestamps) ==
  FilterRows(matrix, column_names, timestamps, ValidIndices(matrix))

BuildFromOhlcv(ohlcv, timestamps, config, g) ==
  BuildFrom(FeatureData(ohlcv, Column(ohlcv, 3), Column(ohlcv, 4),
                        timestamps, config, g),
            FeatureNames(timestamps, config), timestamps)

\* what build_features returns; g is what a read outside a vector yields
build_features(config, data, g) ==
  IF data = << >> THEN EmptyFeatureMatrix
  ELSE BuildFromOhlcv(to_ohlcv_matrix(data),
                      [i \in 1..Len(data) |-> data[i].timestamp], config, g)

\* pct_change, the lag loops and the momentum loop start at i = period with
\* no test of its sign: a negative period indexes before the vector
BuildUndefined(config, data) ==
  /\ data # << >>
  /\ \/ \E k \in 1..Len(config.horizons) : config.horizons[k] < 0
     \/ \E k \in 1..Len(config.lags) : config.lags[k] < 0
     \/ IndicatorsOutOfRange(Column(to_ohlcv_matrix(data), 3),
                             config.indicator_config)

BuildResult(data, status, fm) ==
  [op |-> "build_features", data |-> data, status |-> status, fm |-> fm]

\* what a read outside a vector may yield
UBCells == {NaN, D(0 - 1)}

\* FeatureEngineer::build_features on the instance fe
BuildFeatures(data) ==
  /\ IF BuildUndefined(fe.config_, data)
     THEN \/ result' = BuildResult(data, "abort", EmptyFeatureMatrix)
          \/ \E g \in UBCells :
               result' = BuildResult(data, "ok",
                                     build_features(fe.config_, data, g))
     ELSE result' = BuildResult(data, "ok",
                                build_features(fe.config_, data, NaN))
  /\ UNCHANGED <<splitter, pp, fe, ti>>

\* FeatureMatrix::column_index: the first position holding name, else -1
column_index(fm, name) ==
  IF \E i \in 1..Len(fm.column_names) : fm.column_names[i] = name
  THEN (CHOOSE i \in 1..Len(fm.column_names) :
          /\ fm.column_names[i] = name
          /\ \A j \in 1..(i - 1) : fm.column_names[j] # name) - 1
  ELSE 0 - 1

\* FeatureMatrix::column: data.col(idx), or nullopt for an unknown name
column(fm, name) ==
  IF column_index(fm, name) < 0 THEN Nullopt
  ELSE Some(Column(fm.data, column_index(fm, name)))

\* the series a caller holds: close_, high_ and low_ of TechnicalIndicatorsTest
Fixture(close_, high_, low_) ==
  [close_ |-> close_, high_ |-> high_, low_ |-> low_]

NoFixture == Fixture(<< >>, << >>, << >>)

IndicatorResult(opname, periods, status, out) ==
  [op |-> opname, periods |-> periods, status |-> status, out |-> out]

\* the static functions of TechnicalIndicators applied to the series of ti
Sma(period) ==
  /\ result' = IndicatorResult("sma", <<period>>, "ok",
                               <<sma(ti.close_, period)>>)
  /\ UNCHANGED <<splitter, pp, fe, ti>>

Ema(period) ==
  /\ result' = IndicatorResult("ema", <<period>>, "ok",
                               <<ema(ti.close_, period)>>)
  /\ UNCHANGED <<splitter, pp, fe, ti>>

Rsi(period) ==
  /\ result' = IndicatorResult("rsi", <<period>>, "ok",
                               <<rsi(ti.close_, period)>>)
  /\ UNCHANGED <<splitter, pp, fe, ti>>

Atr(period) ==
  /\ result' = IndicatorResult("atr", <<period>>, "ok",
                               <<atr(ti.high_, ti.low_, ti.close_, period)>>)
  /\ UNCHANGED <<splitter, pp, fe, ti>>

\* upper(i) and middle(i) are accessed from i = period - 1 on, before the
\* vectors when period <= 0
Bollinger(period, num_std) ==
  /\ IF period <= 0
     THEN \/ result' = IndicatorResult("bollinger_bands", <<period>>,
                                       "abort", << >>)
          \/ result' = IndicatorResult("bollinger_bands", <<period>>, "ok",
                         bollinger_bands(ti.close_, period, num_std))
     ELSE result' = IndicatorResult("bollinger_bands", <<period>>, "ok",
                      bollinger_bands(ti.close_, period, num_std))
  /\ UNCHANGED <<splitter, pp, fe, ti>>

Macd(fast, slow, signal) ==
  /\ IF MacdOutOfRange(MacdLine(ema(ti.close_, fast), ema(ti.close_, slow)),
                       signal)
     THEN \/ result' = IndicatorResult("macd", <<fast, slow, signal>>,
                                       "abort", << >>)
          \/ \E g \in UBCells :
               result' = IndicatorResult("macd", <<fast, slow, signal>>,
                           "ok", macd(ti.close_, fast, slow, signal, g))
     ELSE result' = IndicatorResult("macd", <<fast, slow, signal>>, "ok",
                      macd(ti.close_, fast, slow, signal, NaN))
  /\ UNCHANGED <<splitter, pp, fe, ti>>

\* ------------------------------------------------------------ specifications
\* DataSplitter() with the header's default arguments 0.7 / 0.15 / 0.15
DefaultSplitter == [status |-> "ok", train_ratio_ |-> 7000000,
                    val_ratio_ |-> 1500000, test_ratio_ |-> 1500000]

RowCounts == 0..MaxRows

WalkRowCounts == 0..MaxWalkRows

TargetLens(n) == {m \in {n - 1, n, n + 1} : m >= 0}

SplitCounts == 0..MaxSplits

MinTrainSizes == {Nullopt} \cup {Some(k) : k \in (0 - 1)..MaxWalkRows}

StampSeqs == UNION {[1..k -> 1..MaxStampValue] : k \in 0..MaxStamps}

StampIndices == (0 - 1)..MaxStamps

\* construction and split
InitSplit ==
  /\ splitter = NoSplitter
  /\ result = NoResult
  /\ pp = NewPreprocessor(DefaultConfig)
  /\ fe = NewFeatureEngineer(DefaultFeatureConfig)
  /\ ti = NoFixture

NextSplit ==
  \/ \E tr \in Ratios, vr \in Ratios, te \in Ratios : Construct(tr, vr, te)
  \/ \E n \in RowCounts : \E ylen \in TargetLens(n) : Split(n, ylen)

SpecSplit == InitSplit /\ [][NextSplit]_vars

\* walk-forward folds on a default-constructed splitter
InitWalk ==
  /\ splitter = DefaultSplitter
  /\ result = NoResult
  /\ pp = NewPreprocessor(DefaultConfig)
  /\ fe = NewFeatureEngineer(DefaultFeatureConfig)
  /\ ti = NoFixture

NextWalk ==
  \E n \in WalkRowCounts : \E ylen \in TargetLens(n) :
    \E n_splits \in SplitCounts, mts \in MinTrainSizes :
      WalkForwardSplits(n, ylen, n_splits, mts)

SpecWalk == InitWalk /\ [][NextWalk]_vars

\* the static leakage check
NextLeak ==
  \E ts \in StampSeqs : \E a \in StampIndices, b \in StampIndices :
    VerifyNoLeakage(ts, a, b)

SpecLeak == InitWalk /\ [][NextLeak]_vars

\* the Preprocessor's fit / transform lifecycle
PreConfigs ==
  {DefaultConfig,
   PreprocessorConfig("standard", "mean", "zscore", "winsorize", D(3), D(3),
                      <<1>>),
   PreprocessorConfig("", "interpolate", "", "clip", D(3), D(3), << >>)}

\* input columns of n rows: increasing values, a missing value in the second
\* row, a missing value in the first row, or a constant column
PreColumn(n, kind) ==
  [i \in 1..n |->
     IF kind = "ramp" THEN D(i)
     ELSE IF kind = "gap" THEN (IF i = 2 THEN NaN ELSE D(i))
     ELSE IF kind = "lead" THEN (IF i = 1 THEN NaN ELSE D(2 * i))
     ELSE D(4)]

PreKinds == {"ramp", "gap", "lead", "flat"}

\* one-column matrices, and the same with a second column 5, 6, ...
PreMatrices ==
  UNION {{Matrix(1, [i \in 1..n |-> <<PreColumn(n, kind)[i]>>]),
          Matrix(2, [i \in 1..n |-> <<PreColumn(n, kind)[i], D(4 + i)>>])} :
           n \in 0..MaxPreRows, kind \in PreKinds}

InitPre ==
  /\ splitter = NoSplitter
  /\ result = NoResult
  /\ pp \in {NewPreprocessor(config) : config \in PreConfigs}
  /\ fe = NewFeatureEngineer(DefaultFeatureConfig)
  /\ ti = NoFixture

NextPre ==
  \/ \E X \in PreMatrices : Fit(X)
  \/ \E X \in PreMatrices : Transform(X)
  \/ \E X \in PreMatrices : FitTransform(X)
  \/ \E X \in PreMatrices : InverseTransform(X)

SpecPre == InitPre /\ [][NextPre]_vars


\* The pipeline a caller runs on one Preprocessor: fit once (fit, or
\* fit_transform on the training matrix), transform a further matrix, and
\* invert what transform returned.
ScaleConfigs ==
  {PreprocessorConfig("standard", "ffill", "", "clip", D(3), D(3), << >>),
   PreprocessorConfig("standard", "mean", "zscore", "winsorize", D(3), D(1),
                      <<0>>),
   DefaultConfig,
   PreprocessorConfig("robust", "bfill", "", "remove", D(3), D(3), <<0>>),
   PreprocessorConfig("minmax", "interpolate", "iqr", "clip", D(3), D(3),
                      << >>),
   PreprocessorConfig("minmax", "ffill", "zscore", "clip", D(3), D(1), <<0>>),
   PreprocessorConfig("minmax", "drop", "", "clip", D(3), D(3), << >>),
   PreprocessorConfig("", "mean", "iqr", "clip", D(3), D(3), <<0>>),
   PreprocessorConfig("", "ffill", "zscore", "winsorize", D(3), D(1), << >>)}

ScaleKinds == <<"ramp", "flat", "void", "gap", "peak">>

\* input columns of n rows: 1, 2, ..; a constant; all missing; a missing
\* value in the second row; zeros ending in a 3
ScaleColumn(n, kind) ==
  [i \in 1..n |->
     IF kind = "ramp" THEN D(i)
     ELSE IF kind = "flat" THEN D(4)
     ELSE IF kind = "void" THEN NaN
     ELSE IF kind = "gap" THEN (IF i = 2 THEN NaN ELSE D(i))
     ELSE (IF i = n THEN D(3) ELSE D(0))]

\* two-column matrices, each kind of column beside the next kind, and one
\* matrix of a single column
ScaleMatrices ==
  {Matrix(2, [i \in 1..n |->
                <<ScaleColumn(n, ScaleKinds[k])[i],
                  ScaleColumn(n, ScaleKinds[(k % Len(ScaleKinds)) + 1])[i]>>]) :
     n \in 1..MaxScaleRows, k \in 1..Len(ScaleKinds)}
  \cup {Matrix(1, <<<<D(1)>>>>)}

InitPipeline ==
  /\ splitter = NoSplitter
  /\ result = NoResult
  /\ pp \in {NewPreprocessor(config) : config \in ScaleConfigs}
  /\ fe = NewFeatureEngineer(DefaultFeatureConfig)
  /\ ti = NoFixture

PipelineFit(A) == result = NoResult /\ Fit(A)

PipelineFitTransform(A) == result = NoResult /\ FitTransform(A)

PipelineTransform(B) == result.op = "fit" /\ Transform(B)

PipelineInverse ==
  /\ result.op \in {"transform", "fit_transform"}
  /\ result.status = "ok"
  /\ RoundTrip

NextPipeline ==
  \/ \E A \in ScaleMatrices : PipelineFit(A)
  \/ \E A \in ScaleMatrices : PipelineFitTransform(A)
  \/ \E B \in ScaleMatrices : PipelineTransform(B)
  \/ PipelineInverse

SpecPipeline == InitPipeline /\ [][NextPipeline]_vars

\* build_features on a freshly constructed FeatureEngineer, as each unit
\* test calls it.
FeatureConfigs ==
  { FeatureEngineerConfig(
      IndicatorConfig(<<1, 2>>, <<2>>, 1, 1, 2, 1, 2, D(2), 1),
      <<1>>, <<2>>, <<1>>, TRUE),
    FeatureEngineerConfig(
      IndicatorConfig(<<3>>, <<1>>, 2, 1, 1, 2, 1, D(2), 2),
      <<1, 2>>, <<1, 3>>, <<2>>, FALSE),
    DefaultFeatureConfig,
    FeatureEngineerConfig(
      IndicatorConfig(<<1>>, <<1>>, 1, 1, 1, 1, 1, D(2), 1),
      <<0 - 1>>, <<1>>, <<1>>, FALSE),
    FeatureEngineerConfig(
      IndicatorConfig(<<0>>, <<2>>, 1, 1, 2, 1, 0, D(2), 1),
      <<1>>, << >>, <<0>>, TRUE) }

Candle(kind, timestamp) ==
  CASE kind = "up" ->
         CryptoPriceData(timestamp, Decimal(1), Decimal(2), Decimal(1),
                         Decimal(2), Decimal(1))
    [] kind = "down" ->
         CryptoPriceData(timestamp, Decimal(2), Decimal(2), Decimal(1),
                         Decimal(1), Decimal(0))
    [] kind = "dip" ->
         CryptoPriceData(timestamp, Decimal(2), Decimal(3), Decimal(1),
                         Decimal(1), Decimal(2))
    [] OTHER ->
         CryptoPriceData(timestamp, Decimal(2), DecimalInf, Decimal(2),
                         DecimalInf, Decimal(2))

\* candles an hour (3600000 ms) apart from 1 January 1970, 22:00
Candles(kinds) ==
  [i \in 1..Len(kinds) |-> Candle(kinds[i], 79200000 + (i - 1) * 3600000)]

\* every series of up, down and huge candles, and every series of candles
\* with a positive close and volume
CandleSeqs ==
  {Candles(kinds) :
     kinds \in UNION {[1..n -> {"up", "down", "huge"}] : n \in 0..MaxBars}}
  \cup {Candles(kinds) :
          kinds \in UNION {[1..n -> {"up", "dip"}] : n \in 0..MaxBars}}

InitFeatures ==
  /\ splitter = NoSplitter
  /\ result = NoResult
  /\ pp = NewPreprocessor(DefaultConfig)
  /\ fe \in {NewFeatureEngineer(config) : config \in FeatureConfigs}
  /\ ti = NoFixture

NextFeatures ==
  \E data \in CandleSeqs : result = NoResult /\ BuildFeatures(data)

SpecFeatures == InitFeatures /\ [][NextFeatures]_vars

\* the indicator functions on a fixture of up to MaxPrices prices; high and
\* low lie around the close as in TechnicalIndicatorsTest::SetUp.  Each price
\* is 1 or MaxPrice; a series of one repeated price may open with the largest
\* finite double.
PriceSeqs == UNION {[1..n -> {1, MaxPrice}] : n \in 0..MaxPrices}

CloseSeqs ==
  {[i \in 1..Len(c) |-> D(c[i])] : c \in PriceSeqs}
  \cup {[i \in 1..n |-> IF i = 1 THEN DblMax ELSE D(p)] :
          n \in 1..MaxPrices, p \in {1, MaxPrice}}

Fixtures ==
  {Fixture(c,
           [i \in 1..Len(c) |-> DAdd(c[i], D(1 + ((i - 1) % 3)))],
           [i \in 1..Len(c) |-> DSub(c[i], D((i - 1) % 2))]) :
     c \in CloseSeqs}

\* periods from -1 to the length of the longest series
Periods == (0 - 1)..MaxPrices

InitIndicators ==
  /\ splitter = NoSplitter
  /\ result = NoResult
  /\ pp = NewPreprocessor(DefaultConfig)
  /\ fe = NewFeatureEngineer(DefaultFeatureConfig)
  /\ ti \in Fixtures

\* each function is applied once to the fixture
NextIndicators ==
  /\ result = NoResult
  /\ \/ \E period \in Periods : Sma(period)
     \/ \E period \in Periods : Ema(period)
     \/ \E period \in Periods : Rsi(period)
     \/ \E period \in Periods : Atr(period)
     \/ \E period \in Periods : Bollinger(period, D(2))
     \/ \E fast \in Periods, slow \in Periods, signal \in Periods :
          Macd(fast, slow, signal)

SpecIndicators == InitIndicators /\ [][NextIndicators]_vars

\* ------------------------------------------------------------------ claims
Last(s) == s[Len(s)]

IsSplitReturn == result.op = "split" /\ result.status = "ok"

IsWalkReturn == result.op = "walk_forward_splits" /\ result.status = "ok"

IsLeakCall == result.op = "verify_no_leakage"

\* C1: whenever split returns, the three partition sizes add up to the input
\* row count and every target slice is as long as its matrix partition.
C1_SizesSumToN ==
  IsSplitReturn =>
    /\ Len(result.train) + Len(result.val) + Len(result.test) = result.n
    /\ Len(result.train_target) = Len(result.train)
    /\ Len(result.val_target) = Len(result.val)
    /\ Len(result.test_target) = Len(result.test)

\* C2: whenever split returns, 1 <= train_end < val_end < n, so that the
\* train, validation and test partitions each hold at least one row.
C2_PartitionsNonEmpty ==
  IsSplitReturn =>
    /\ 1 <= result.train_end
    /\ result.train_end < result.val_end
    /\ result.val_end < result.n
    /\ Len(result.train) >= 1
    /\ Len(result.val) >= 1
    /\ Len(result.test) >= 1

\* C3: split returns rows [0,a), [a,b), [b,n) of X and of y in their original
\* order, and for the strictly increasing feature column the last train value
\* is below the first validation value, and the last validation value below
\* the first test value.
C3_ContiguousOrderedSlices ==
  IsSplitReturn =>
    LET X == XData(result.n)
        y == YData(result.ylen)
        a == result.train_end
        b == result.val_end
    IN /\ 0 <= a /\ a <= b /\ b <= result.n
       /\ result.train = SubSeq(X, 1, a)
       /\ result.val = SubSeq(X, a + 1, b)
       /\ result.test = SubSeq(X, b + 1, result.n)
       /\ result.train_target = SubSeq(y, 1, a)
       /\ result.val_target = SubSeq(y, a + 1, b)
       /\ result.test_target = SubSeq(y, b + 1, result.n)
       /\ Len(result.train) > 0 /\ Len(result.val) > 0 /\ Len(result.test) > 0
       /\ Last(result.train) < Head(result.val)
       /\ Last(result.val) < Head(result.test)

ValidStampIndex(ts, i) == 0 <= i /\ i < Len(ts)

StrictlyIncreasing(ts) == \A i \in 1..(Len(ts) - 1) : ts[i] < ts[i + 1]

LeakageCondition ==
  /\ ValidStampIndex(result.timestamps, result.train_end)
  /\ ValidStampIndex(result.timestamps, result.test_start)
  /\ result.timestamps[result.train_end + 1] >=
       result.timestamps[result.test_start + 1]

\* C4 as stated: verify_no_leakage returns false iff both indices are valid and
\* timestamps[train_end] >= timestamps[test_start]; and for strictly increasing
\* timestamps it returns true exactly when train_end < test_start.
C4_AsStated ==
  IsLeakCall =>
    /\ (result.ret = FALSE) <=> LeakageCondition
    /\ StrictlyIncreasing(result.timestamps) =>
         (result.ret <=> (result.train_end < result.test_start))

\* C4 amended: verify_no_leakage returns false iff both indices are valid and
\* timestamps[train_end] >= timestamps[test_start]; and for strictly increasing
\* timestamps and two valid indices it returns true exactly when
\* train_end < test_start.
C4_LeakageIffValidAndNotBefore ==
  IsLeakCall =>
    /\ (result.ret = FALSE) <=> LeakageCondition
    /\ ( /\ StrictlyIncreasing(result.timestamps)
         /\ ValidStampIndex(result.timestamps, result.train_end)
         /\ ValidStampIndex(result.timestamps, result.test_start) ) =>
         (result.ret <=> (result.train_end < result.test_start))

C4_Witness ==
  /\ IsLeakCall
  /\ Len(result.timestamps) >= 2
  /\ StrictlyIncreasing(result.timestamps)
  /\ ValidStampIndex(result.timestamps, result.train_end)
  /\ result.test_start = result.train_end
  /\ result.ret = FALSE

WalkArgMinTrain == WalkMinTrain(result.n, result.min_train_size)

WalkArgTestSize == (result.n - WalkArgMinTrain) \div result.n_splits

\* C5: in a returned fold list, fold i (from 0) trains on rows
\* [0, min_train + i*test_size) and validates on the next test_size rows,
\* clipped to n.
C5_FoldLayout ==
  IsWalkReturn =>
    \A k \in 1..Len(result.folds) :
      LET X == XData(result.n)
          te == WalkArgMinTrain + (k - 1) * WalkArgTestSize
          ve == Min(te + WalkArgTestSize, result.n)
      IN /\ 0 <= te /\ te <= ve
         /\ result.folds[k].train_X = SubSeq(X, 1, te)
         /\ result.folds[k].val_X = SubSeq(X, te + 1, ve)

\* C6: in a returned fold list every training window is a prefix of the data,
\* training sizes never shrink from one fold to the next, and each validation
\* window starts at the row where its training window ends.
C6_ExpandingPrefixWindows ==
  IsWalkReturn =>
    LET X == XData(result.n)
        f == result.folds
    IN /\ \A k \in 1..Len(f) :
            /\ Len(f[k].train_X) + Len(f[k].val_X) <= result.n
            /\ f[k].train_X = SubSeq(X, 1, Len(f[k].train_X))
            /\ f[k].val_X = SubSeq(X, Len(f[k].train_X) + 1,
                                   Len(f[k].train_X) + Len(f[k].val_X))
       /\ \A k \in 1..(Len(f) - 1) :
            Len(f[k].train_X) <= Len(f[k + 1].train_X)

\* C7: every returned fold has at least one training row and one validation
\* row, and its target vectors are as long as its matrices.
C7_NoEmptyFolds ==
  IsWalkReturn =>
    \A k \in 1..Len(result.folds) :
      /\ Len(result.folds[k].train_X) >= 1
      /\ Len(result.folds[k].val_X) >= 1
      /\ Len(result.folds[k].train_y) = Len(result.folds[k].train_X)
      /\ Len(result.folds[k].val_y) = Len(result.folds[k].val_X)

\* C8: construction fails exactly when the ratios do not sum to 1 within 1e-6
\* or one of them is <= 0; split fails, returning nothing, exactly when X has
\* fewer than 10 rows or y's length differs; in every other case it succeeds.
C8_SplitRejectsExactlyInvalidInput ==
  /\ result.op = "construct" =>
       ((result.status = "error") <=>
          \/ Abs(result.train_ratio + result.val_ratio + result.test_ratio
                 - RatioScale) > RatioTolerance
          \/ result.train_ratio <= 0
          \/ result.val_ratio <= 0
          \/ result.test_ratio <= 0)
       /\ result.status \in {"ok", "error"}
  /\ result.op = "split" =>
       IF result.n < 10 \/ result.ylen # result.n
       THEN /\ result.status = "error"
            /\ result.train = << >> /\ result.val = << >>
            /\ result.test = << >>
       ELSE result.status = "ok"

\* C9: walk_forward_splits fails, with no folds, exactly when the data is
\* empty, n_splits < 2, min_train_size >= n or the fold size is below 1; for
\* every other input it returns folds whose row ranges lie inside [0, n).
C9_WalkRejectsExactlyInvalidInput ==
  result.op = "walk_forward_splits" =>
    IF \/ result.n = 0
       \/ result.n_splits < 2
       \/ WalkArgMinTrain >= result.n
       \/ WalkArgTestSize < 1
    THEN result.status = "error" /\ result.folds = << >>
    ELSE /\ result.status = "ok"
         /\ \A k \in 1..Len(result.folds) :
              /\ 0 <= result.folds[k].train_end
              /\ result.folds[k].train_end < result.folds[k].val_end
              /\ result.folds[k].val_end <= result.n
              /\ result.folds[k].train_X =
                   SubSeq(XData(result.n), 1, result.folds[k].train_end)
              /\ result.folds[k].val_X =
                   SubSeq(XData(result.n), result.folds[k].train_end + 1,
                          result.folds[k].val_end)

IsPreCall(opname) == result.op = opname

\* C10: a new Preprocessor is not fitted; transform on an instance that no
\* fit has succeeded on fails for every input, a zero-row matrix included;
\* a successful fit or fit_transform sets the fitted flag, nothing else sets
\* it, and once set it stays set under every later call.
C10_Lifecycle ==
  /\ ~pp.fitted_
  /\ [][ /\ (~pp.fitted_ /\ result'.op = "transform")
              => result'.status = "error"
         /\ (result'.op \in {"fit", "fit_transform"} /\ result'.status = "ok")
              => pp'.fitted_
         /\ (~pp.fitted_ /\ pp'.fitted_)
              => (result'.op \in {"fit", "fit_transform"}
                  /\ result'.status = "ok")
         /\ pp.fitted_ => pp'.fitted_ ]_vars

\* a zero-row transform has just failed on an instance that was never fitted
C10_Witness ==
  /\ IsPreCall("transform")
  /\ ~pp.fitted_
  /\ NumRows(result.X) = 0
  /\ result.status = "error"

\* C11: inverse_transform on a Preprocessor that no fit has succeeded on
\* raises an error instead of returning a matrix, whatever scaler is
\* configured.
C11_InverseFailsBeforeFit ==
  [][(~pp.fitted_ /\ result'.op = "inverse_transform")
       => result'.status = "error"]_vars

\* C12: fit on a zero-row matrix fails and leaves the whole object (fitted
\* flag, feature count, scalable columns, outlier bounds, scaler parameters)
\* as it was, on a never-fitted instance and on a fitted one alike.
C12_EmptyFitCommitsNothing ==
  [][(result'.op = "fit" /\ NumRows(result'.X) = 0)
       => (result'.status = "error" /\ pp' = pp)]_vars

\* a zero-row fit has just failed on an instance fitted earlier on two columns
C12_Witness ==
  /\ IsPreCall("fit")
  /\ NumRows(result.X) = 0
  /\ result.status = "error"
  /\ pp.fitted_
  /\ pp.n_features_ = 2
  /\ result.X.cols = 1

\* what transform returns for X from the fitted parameters in pre alone
TransformOf(pre, X) == IF NumRows(X) = 0 THEN X ELSE TransformValue(pre, X)

\* C13: transform and inverse_transform leave the whole fitted state as it
\* was, so transform on a fitted instance returns, for an arbitrary matrix,
\* the value the fit-time parameters determine, whatever calls came before;
\* only fit and fit_transform change the fitted state.
C13_TransformNeverRefits ==
  [][ /\ result'.op \in {"transform", "inverse_transform"} => pp' = pp
      /\ (result'.op = "transform" /\ pp.fitted_)
           => /\ result'.status = "ok"
              /\ result'.Y = TransformOf(pp, result'.X)
      /\ pp' # pp => result'.op \in {"fit", "fit_transform"} ]_vars

\* a second Preprocessor with the same configuration after fit(X)
SecondFitted(config, X) == FitState(NewPreprocessor(config), X)

\* C14: fit_transform(X) on a non-empty X returns the matrix, and leaves the
\* fitted state, that fit(X) followed by transform(X) gives on a second
\* Preprocessor built with the same configuration.
C14_FitTransformIsFitThenTransform ==
  [][(result'.op = "fit_transform" /\ NumRows(result'.X) > 0)
       => /\ result'.status = "ok"
          /\ pp' = SecondFitted(pp.config_, result'.X)
          /\ ~TransformUndefined(pp', result'.X)
          /\ result'.Y = TransformValue(pp', result'.X)]_vars

\* fit_transform has just returned a changed matrix of the largest size
C14_Witness ==
  /\ IsPreCall("fit_transform")
  /\ result.status = "ok"
  /\ NumRows(result.X) = MaxPreRows
  /\ result.Y # result.X

IsTransformReturn ==
  /\ result.op \in {"transform", "fit_transform"}
  /\ result.status = "ok"

\* C15: every column listed in exclude_from_scaling comes back from transform
\* cell for cell as it went in, missing cells included, under every scaler,
\* missing-data strategy and outlier setting.
C15_ExcludedColumnsUntouched ==
  IsTransformReturn =>
    \A i \in 1..Len(pp.config_.exclude_from_scaling) :
      LET c == pp.config_.exclude_from_scaling[i]
      IN (0 <= c /\ c < result.X.cols) =>
           /\ NumRows(result.Y) = NumRows(result.X)
           /\ result.Y.cols = result.X.cols
           /\ Column(result.Y, c) = Column(result.X, c)

IsRoundTrip == result.op = "round_trip"

NoMissing(X) ==
  \A r \in 1..NumRows(X) : \A c \in 1..X.cols : ~IsNaN(X.rows[r][c])

\* outlier treatment is disabled, or leaves every value of X as it is
OutliersAlterNothing(pre, X) ==
  pre.config_.outlier_method = "" \/ treat_outliers(pre, X) = X

\* C16: for a Preprocessor fitted on any non-empty matrix with X's column
\* count, when X has no missing value and outlier treatment alters nothing,
\* inverse_transform(transform(X)) equals X cell for cell under the standard,
\* robust and minmax scalers; with no scaler inverse_transform returns its
\* input.
C16_RoundTrip ==
  IsRoundTrip =>
    /\ pp.config_.scaler_type = "" =>
         (result.status = "ok" /\ result.Y = result.Z)
    /\ ( /\ pp.n_features_ = result.X.cols
         /\ NoMissing(result.X)
         /\ OutliersAlterNothing(pp, result.X) ) =>
         (result.status = "ok" /\ result.Y = result.X)

ScaleOf(pre, c) ==
  IF pre.config_.scaler_type = "standard" THEN pre.std_[c + 1]
  ELSE IF pre.config_.scaler_type = "robust" THEN pre.iqr_[c + 1]
  ELSE pre.range_[c + 1]

LocationOf(pre, c) ==
  IF pre.config_.scaler_type = "standard" THEN pre.mean_[c + 1]
  ELSE IF pre.config_.scaler_type = "robust" THEN pre.median_[c + 1]
  ELSE pre.min_[c + 1]

AllEqual(vals) == \A i \in 1..Len(vals) : vals[i] = vals[1]

\* the column's defined values at fit time give a scale of zero: a single
\* value or equal values (standard, minmax), equal quartiles (robust)
NaturalScaleDegenerate(config, vals) ==
  /\ vals # << >>
  /\ IF config.scaler_type = "robust"
     THEN Sorted(vals)[(Len(vals) \div 4) + 1] =
            Sorted(vals)[((3 * Len(vals)) \div 4) + 1]
     ELSE AllEqual(vals)

Scaling == pp.config_.scaler_type \in {"standard", "robust", "minmax"}

\* For a Preprocessor pre fitted on A: each scalable column of A whose
\* natural scale is degenerate has the fitted scale 1, and the matrix Y
\* returned by transform(X) holds, for each defined cell of X in such a
\* column, the cell of `before` minus the fitted location, neither infinite
\* nor undefined.
DegenerateColumnsMap(pre, A, X, Y, before) ==
  \A i \in 1..Len(pre.scalable_cols_) :
    LET c == pre.scalable_cols_[i]
        vals == NonNaN(Column(handle_missing(pre.config_, A), c))
    IN NaturalScaleDegenerate(pre.config_, vals) =>
         /\ ScaleOf(pre, c) = D(1)
         /\ \A r \in 1..NumRows(X) :
              ~IsNaN(Cell(X, r - 1, c)) =>
                /\ Cell(Y, r - 1, c) =
                     DSub(Cell(before, r - 1, c), LocationOf(pre, c))
                /\ Cell(Y, r - 1, c).k \notin {"nan", "inf", "ninf"}

\* X as the scaler receives it: after missing-data handling and outlier
\* treatment with the fit-time bounds
Treated(pre, X) ==
  IF pre.config_.outlier_method # ""
  THEN treat_outliers(pre, handle_missing(pre.config_, X))
  ELSE handle_missing(pre.config_, X)

\* fit_transform(X) has returned in the next state
FitTransformReturns ==
  /\ result'.op = "fit_transform"
  /\ result'.status = "ok"
  /\ pp'.config_.scaler_type \in {"standard", "robust", "minmax"}

\* fit(A) had succeeded and transform(X), X as wide as A, has returned
TransformAfterFitReturns ==
  /\ Scaling
  /\ result.op = "fit" /\ result.status = "ok"
  /\ result'.op = "transform" /\ result'.status = "ok"
  /\ result'.X.cols = result.X.cols

\* C18 as stated: a column whose natural scale at fit time is degenerate gets
\* the fitted scale 1, and transform maps each defined value x of such a
\* column to x minus the fitted location, never to an infinite or undefined
\* value.
C18_AsStated ==
  [][ /\ FitTransformReturns =>
           DegenerateColumnsMap(pp', result'.X, result'.X, result'.Y,
                                result'.X)
      /\ TransformAfterFitReturns =>
           DegenerateColumnsMap(pp, result.X, result'.X, result'.Y,
                                result'.X) ]_vars

\* C18 amended: a column whose natural scale at fit time is degenerate gets
\* the fitted scale 1, and transform maps each defined value of such a
\* column, after outlier treatment with the fit-time bounds, to that value
\* minus the fitted location, never to an infinite or undefined value.
C18_DegenerateScaleNeutral ==
  [][ /\ FitTransformReturns =>
           DegenerateColumnsMap(pp', result'.X, result'.X, result'.Y,
                                Treated(pp', result'.X))
      /\ TransformAfterFitReturns =>
           DegenerateColumnsMap(pp, result.X, result'.X, result'.Y,
                                Treated(pp, result'.X)) ]_vars

\* transform has just returned non-zero cells for a column of fitted scale 1
\* and non-zero location
C18_Witness ==
  /\ IsPreCall("transform")
  /\ result.status = "ok"
  /\ Scaling
  /\ pp.n_features_ = result.X.cols
  /\ \E i \in 1..Len(pp.scalable_cols_) : \E r \in 1..NumRows(result.X) :
       LET c == pp.scalable_cols_[i]
       IN /\ ScaleOf(pp, c) = D(1)
          /\ LocationOf(pp, c) = D(4)
          /\ IsFin(Cell(result.X, r - 1, c))
          /\ Cell(result.X, r - 1, c) # D(4)
          /\ Cell(result.Y, r - 1, c) =
               DSub(Cell(result.X, r - 1, c), D(4))

IsBuildCall == result.op = "build_features"

\* no cell is NaN or non-finite, and every row has one cell per column
AllCellsFinite(matrix) ==
  \A r \in 1..NumRows(matrix) :
    /\ Len(matrix.rows[r]) = matrix.cols
    /\ \A c \in 1..matrix.cols :
         ~IsNaN(matrix.rows[r][c]) /\ IsFinite(matrix.rows[r][c])

\* C19: every build_features call, whatever the input sequence (the empty
\* one included) and the configuration, returns a FeatureMatrix with as many
\* data rows as timestamps, as many data columns as column names, and no
\* cell that is NaN or non-finite.
C19_FeatureMatrixInvariant ==
  IsBuildCall =>
    /\ result.status = "ok"
    /\ NumRows(result.fm.data) = Len(result.fm.timestamps)
    /\ result.fm.data.cols = Len(result.fm.column_names)
    /\ AllCellsFinite(result.fm.data)

Values(s) == {s[k] : k \in 1..Len(s)}

MaxOf(S) == CHOOSE m \in S : \A x \in S : x <= m

\* the first defined index of every configured feature
Lookbacks(config) ==
  {1}
  \cup {p - 1 : p \in Values(config.indicator_config.sma_periods)}
  \cup {p - 1 : p \in Values(config.indicator_config.ema_periods)}
  \cup {config.indicator_config.bb_period - 1,
        config.indicator_config.rsi_period,
        config.indicator_config.atr_period,
        MaxOf({config.indicator_config.macd_fast,
               config.indicator_config.macd_slow})
          + config.indicator_config.macd_signal - 2}
  \cup {p - 1 : p \in Values(config.rolling_windows)}
  \cup {h - 1 : h \in Values(config.horizons)}
  \cup Values(config.horizons)
  \cup Values(config.lags)

LongestLookback(config) == MaxOf(Lookbacks(config))

PeriodsPositive(config) ==
  \A p \in Values(config.indicator_config.sma_periods)
           \cup Values(config.indicator_config.ema_periods)
           \cup {config.indicator_config.rsi_period,
                 config.indicator_config.macd_fast,
                 config.indicator_config.macd_slow,
                 config.indicator_config.macd_signal,
                 config.indicator_config.bb_period,
                 config.indicator_config.atr_period}
           \cup Values(config.rolling_windows)
           \cup Values(config.horizons)
           \cup Values(config.lags) : p >= 1

\* the column names build_features assigns for an input that is not empty
NamesForLongInput(config) == FeatureNames(<<0>>, config)

\* C20: for a configuration with periods >= 1 and an input of any length
\* from 0 up to the longest configured lookback, build_features returns
\* without error a matrix of zero rows with the column names, count and
\* order it produces for a long input, and an empty timestamp list.
C20_ShortInputKeepsColumns ==
  (/\ IsBuildCall
   /\ PeriodsPositive(fe.config_)
   /\ Len(result.data) <= LongestLookback(fe.config_))
    => /\ result.status = "ok"
       /\ NumRows(result.fm.data) = 0
       /\ result.fm.timestamps = << >>
       /\ result.fm.column_names = NamesForLongInput(fe.config_)
       /\ result.fm.data.cols = Len(result.fm.column_names)

\* the original index of the k-th retained row: the candles of one input
\* carry distinct timestamps
OriginalIndex(k) ==
  CHOOSE i \in 1..Len(result.data) :
    result.data[i].timestamp = result.fm.timestamps[k]

\* the value the input holds at position i for a base column
InputValue(i, name) ==
  CASE name = "open" -> to_float(result.data[i].open_price)
    [] name = "high" -> to_float(result.data[i].high_price)
    [] name = "low" -> to_float(result.data[i].low_price)
    [] name = "close" -> to_float(result.data[i].close_price)
    [] OTHER -> to_float(result.data[i].volume)

BaseColumns == {"open", "high", "low", "close", "volume"}

\* C21: the rows build_features retains are a subsequence of the input rows
\* in their original order; the k-th retained row carries the timestamp of
\* the input record it was built from, and the open, high, low, close and
\* volume columns, looked up by name, hold that record's values.
C21_RetainedRowsAligned ==
  (IsBuildCall /\ result.status = "ok" /\ result.data # << >>)
    => /\ NumRows(result.fm.data) = Len(result.fm.timestamps)
       /\ \A k \in 1..Len(result.fm.timestamps) :
            \E i \in 1..Len(result.data) :
              result.data[i].timestamp = result.fm.timestamps[k]
       /\ \A k \in 2..Len(result.fm.timestamps) :
            OriginalIndex(k - 1) < OriginalIndex(k)
       /\ \A name \in BaseColumns :
            /\ column(result.fm, name).has
            /\ Len(column(result.fm, name).v) = Len(result.fm.timestamps)
            /\ \A k \in 1..Len(result.fm.timestamps) :
                 column(result.fm, name).v[k]
                   = InputValue(OriginalIndex(k), name)

\* rows were dropped at both ends: the first retained row is not the first
\* input record and the last input record is not retained
C21_Witness ==
  /\ IsBuildCall
  /\ result.status = "ok"
  /\ NumRows(result.fm.data) >= 2
  /\ OriginalIndex(1) > 1
  /\ OriginalIndex(NumRows(result.fm.data)) < Len(result.data)

\* one name per period, and per period and member, in the order given
NamesPer(prefix, periods) ==
  [k \in 1..Len(periods) |-> prefix \o ToString(periods[k])]

RECURSIVE Interleave(_, _)
Interleave(prefixes, periods) ==
  IF periods = << >> THEN << >>
  ELSE [m \in 1..Len(prefixes) |-> prefixes[m] \o ToString(Head(periods))]
       \o Interleave(prefixes, Tail(periods))

\* the layout the specification fixes, group after group
ExpectedNames(config) ==
  <<"open", "high", "low", "close", "volume">>
  \o NamesPer("sma_", config.indicator_config.sma_periods)
  \o NamesPer("ema_", config.indicator_config.ema_periods)
  \o NamesPer("rsi_", <<config.indicator_config.rsi_period>>)
  \o <<"macd", "macd_signal", "macd_hist">>
  \o <<"bb_upper", "bb_middle", "bb_lower">>
  \o NamesPer("atr_", <<config.indicator_config.atr_period>>)
  \o <<"true_range", "obv", "vwap">>
  \o NamesPer("ret_", config.horizons)
  \o Interleave(<<"close_lag_", "vol_lag_">>, config.lags)
  \o Interleave(<<"roll_mean_", "roll_std_", "roll_vol_mean_">>,
                config.rolling_windows)
  \o Interleave(<<"hz_roll_mean_", "hz_roll_std_", "hz_vol_mean_",
                  "hz_momentum_", "hz_vol_ratio_">>, config.horizons)
  \o (IF config.include_temporal THEN <<"hour", "dayofweek", "month">>
      ELSE << >>)

ExpectedCount(config) ==
  16 + Len(config.indicator_config.sma_periods)
     + Len(config.indicator_config.ema_periods)
     + 6 * Len(config.horizons) + 2 * Len(config.lags)
     + 3 * Len(config.rolling_windows)
     + (IF config.include_temporal THEN 3 ELSE 0)

\* C22: for a non-empty input the column names build_features returns are
\* fixed by the configuration alone: base OHLCV, indicators, returns, lags,
\* rolling statistics, multi-horizon columns, then the temporal columns if
\* enabled, 16 + |sma| + |ema| + 6 |horizons| + 2 |lags| + 3 |windows|
\* (+ 3 if temporal) names in all, one per data column.
C22_ColumnLayout ==
  (IsBuildCall /\ result.status = "ok" /\ result.data # << >>)
    => /\ result.fm.column_names = ExpectedNames(fe.config_)
       /\ Len(result.fm.column_names) = ExpectedCount(fe.config_)
       /\ result.fm.data.cols = ExpectedCount(fe.config_)

\* the default configuration on the longest input: 57 columns
C22_Witness ==
  /\ IsBuildCall
  /\ result.status = "ok"
  /\ Len(result.data) = MaxBars
  /\ fe.config_ = DefaultFeatureConfig
  /\ Len(result.fm.column_names) = 57

IsIndicatorCall(opname) == result.op = opname /\ result.status = "ok"

\* the direct mean of data(i - period + 1 .. i)
WindowMean(data, period, i) == MeanOf(SubSeq(data, i - period + 2, i + 1))

\* C23: for 1 <= p <= n, sma returns n values, undefined at exactly the
\* indices 0 .. p - 2, and equal at every index i >= p - 1 to the arithmetic
\* mean of data[i - p + 1 .. i].
C23_SmaIsWindowMean ==
  (/\ IsIndicatorCall("sma")
   /\ 1 <= result.periods[1]
   /\ result.periods[1] <= Len(ti.close_))
    => /\ Len(result.out[1]) = Len(ti.close_)
       /\ \A k \in 1..Len(ti.close_) :
            IF k < result.periods[1] THEN IsNaN(result.out[1][k])
            ELSE /\ ~IsNaN(result.out[1][k])
                 /\ result.out[1][k]
                      = WindowMean(ti.close_, result.periods[1], k - 1)

BadPeriod(period) == period <= 0 \/ period > Len(ti.close_)

AllUndefined(v) ==
  /\ Len(v) = Len(ti.close_)
  /\ \A k \in 1..Len(v) : IsNaN(v[k])

\* the outputs a bad period must leave undefined: all of them, except that
\* the MACD line does not depend on the signal period
OutputsOfBadPeriod ==
  IF result.op = "macd" /\ ~BadPeriod(result.periods[1])
                        /\ ~BadPeriod(result.periods[2])
  THEN {2, 3}
  ELSE 1..Len(result.out)

\* C24: sma, ema, rsi, atr, bollinger_bands and macd (for each of fast, slow
\* and signal) called with a period <= 0 or greater than the input length
\* return, without an access outside the sequences, outputs of the input's
\* length that are undefined at every index.
C24_BadPeriodAllUndefined ==
  (/\ result.op \in {"sma", "ema", "rsi", "atr", "bollinger_bands", "macd"}
   /\ \E k \in 1..Len(result.periods) : BadPeriod(result.periods[k]))
    => /\ result.status = "ok"
       /\ \A o \in OutputsOfBadPeriod : AllUndefined(result.out[o])

\* index of the first defined MACD value for periods >= 1
MacdStart == (IF result.periods[1] > result.periods[2]
              THEN result.periods[1] ELSE result.periods[2]) - 1

\* index of the first defined signal value
SignalStart == MacdStart + result.periods[3] - 1

\* C25: for macd with all periods >= 1 the MACD line is defined exactly at
\* the indices >= max(fast, slow) - 1; the signal line is defined exactly at
\* the indices >= max(fast, slow) + signal - 2, where it starts with the
\* mean of the first signal defined MACD values; the histogram is defined
\* exactly where both are, and equals macd_line - signal there.
C25_MacdLayout ==
  (/\ IsIndicatorCall("macd")
   /\ \A k \in 1..3 : result.periods[k] >= 1)
    => /\ \A o \in 1..3 : Len(result.out[o]) = Len(ti.close_)
       /\ \A k \in 1..Len(ti.close_) :
            /\ ~IsNaN(result.out[1][k]) <=> k - 1 >= MacdStart
            /\ ~IsNaN(result.out[2][k]) <=> k - 1 >= SignalStart
            /\ ~IsNaN(result.out[3][k])
                 <=> (~IsNaN(result.out[1][k]) /\ ~IsNaN(result.out[2][k]))
            /\ ~IsNaN(result.out[3][k])
                 => result.out[3][k]
                      = DSub(result.out[1][k], result.out[2][k])
       /\ SignalStart < Len(ti.close_)
            => result.out[2][SignalStart + 1]
                 = MeanOf(SubSeq(result.out[1], MacdStart + 1,
                                 SignalStart + 1))

\* a signal line that starts after the MACD line, and a histogram that is
\* defined and not zero
C25_Witness ==
  /\ IsIndicatorCall("macd")
  /\ \A k \in 1..3 : result.periods[k] >= 1
  /\ result.periods[3] >= 2
  /\ SignalStart < Len(ti.close_) - 1
  /\ \E k \in 1..Len(ti.close_) :
       /\ ~IsNaN(result.out[3][k])
       /\ IsFin(result.out[3][k])
       /\ result.out[3][k] # D(0)

\* gain(i) and loss(i) of rsi as sequences; both are 0 at index 0
Gains(close) ==
  [j \in 1..Len(close) |->
     IF j = 1 THEN D(0) ELSE DMax(DSub(close[j], close[j - 1]), D(0))]

Losses(close) ==
  [j \in 1..Len(close) |->
     IF j = 1 THEN D(0) ELSE DMax(DSub(close[j - 1], close[j]), D(0))]

OrdinaryPrices == \A k \in 1..Len(ti.close_) : IsFin(ti.close_[k])

\* C26: for 1 <= p < n, rsi is undefined exactly at the indices 0 .. p - 1;
\* at every index i >= p it lies in [0, 100], is 100 when the smoothed
\* average loss at i is zero (a constant series included), and is 0 when the
\* average gain is zero and the average loss is positive.
C26_RsiRange ==
  (/\ IsIndicatorCall("rsi")
   /\ OrdinaryPrices
   /\ 1 <= result.periods[1]
   /\ result.periods[1] < Len(ti.close_))
    => /\ Len(result.out[1]) = Len(ti.close_)
       /\ \A k \in 1..Len(ti.close_) :
            IF k - 1 < result.periods[1] THEN IsNaN(result.out[1][k])
            ELSE /\ IsFin(result.out[1][k])
                 /\ ~DLess(result.out[1][k], D(0))
                 /\ ~DLess(D(100), result.out[1][k])
                 /\ IsZero(WilderAt(Losses(ti.close_), result.periods[1],
                                    k - 1))
                      => result.out[1][k] = D(100)
                 /\ (/\ IsZero(WilderAt(Gains(ti.close_), result.periods[1],
                                        k - 1))
                     /\ DLess(D(0), WilderAt(Losses(ti.close_),
                                             result.periods[1], k - 1)))
                      => result.out[1][k] = D(0)

\* one call whose values include 0 and a value strictly between 0 and 100
C26_Witness ==
  /\ IsIndicatorCall("rsi")
  /\ OrdinaryPrices
  /\ result.periods[1] >= 1
  /\ \E k \in 1..Len(result.out[1]) : result.out[1][k] = D(0)
  /\ \E k \in 1..Len(result.out[1]) :
       /\ DLess(D(0), result.out[1][k])
       /\ DLess(result.out[1][k], D(100))

\* an outlier method and a clamping treatment are configured, and no scaler
ClipsWithoutScaler(config) ==
  /\ config.scaler_type = ""
  /\ config.outlier_method \in {"iqr", "zscore"}
  /\ config.outlier_treatment \in {"clip", "winsorize"}

\* fit(A) had succeeded and transform(B), B as wide as A, has returned
ClipAfterFitReturns ==
  /\ ClipsWithoutScaler(pp.config_)
  /\ result.op = "fit" /\ result.status = "ok"
  /\ result'.op = "transform" /\ result'.status = "ok"
  /\ result'.X.cols = result.X.cols

\* the defined values of column c of A once its missing cells are handled
FitValues(config, A, c) == NonNaN(Column(handle_missing(config, A), c))

Within(v, lo, hi) == ~DLess(v, lo) /\ ~DLess(hi, v)

\* Y is B treated with bounds that come from A alone: in a non-excluded
\* column every defined cell of Y is within the bounds and a cell of B within
\* them is kept; in an excluded column every defined cell of B is kept
ClippedToFitBounds(pre, A, B, Y) ==
  \A c \in 0..(B.cols - 1) : \A r \in 1..NumRows(B) :
    IF Excluded(pre.config_, c)
    THEN ~IsNaN(Cell(B, r - 1, c)) => Cell(Y, r - 1, c) = Cell(B, r - 1, c)
    ELSE /\ pre.lower_bounds_[c + 1] =
              LowerBound(pre.config_, FitValues(pre.config_, A, c))
         /\ pre.upper_bounds_[c + 1] =
              UpperBound(pre.config_, FitValues(pre.config_, A, c))
         /\ ~IsNaN(Cell(Y, r - 1, c)) =>
              Within(Cell(Y, r - 1, c), pre.lower_bounds_[c + 1],
                     pre.upper_bounds_[c + 1])
         /\ ( /\ ~IsNaN(Cell(B, r - 1, c))
              /\ Within(Cell(B, r - 1, c), pre.lower_bounds_[c + 1],
                        pre.upper_bounds_[c + 1]) ) =>
              Cell(Y, r - 1, c) = Cell(B, r - 1, c)

\* C27: with an outlier method, treatment clip or winsorize and no scaler,
\* transform(B) after fit(A) leaves the fitted bounds as A gave them, returns
\* every defined value of a non-excluded column within those bounds and a
\* value of B already within them unchanged, and clips no excluded column.
C27_ClipsToFitTimeBounds ==
  [][ClipAfterFitReturns =>
       /\ pp' = pp
       /\ NumRows(result'.Y) = NumRows(result'.X)
       /\ result'.Y.cols = result'.X.cols
       /\ ClippedToFitBounds(pp', result.X, result'.X, result'.Y)]_vars

\* transform has returned a matrix in which one value of a non-excluded
\* column of B was moved onto a fit-time bound and another defined value of
\* that column came back as it was
C27_Witness ==
  /\ ClipsWithoutScaler(pp.config_)
  /\ result.op = "transform" /\ result.status = "ok"
  /\ result.X.cols = pp.n_features_
  /\ \E i \in 1..Len(pp.scalable_cols_) : \E r, q \in 1..NumRows(result.X) :
       /\ IsFin(Cell(result.X, r - 1, pp.scalable_cols_[i]))
       /\ Cell(result.Y, r - 1, pp.scalable_cols_[i]) #
            Cell(result.X, r - 1, pp.scalable_cols_[i])
       /\ Cell(result.Y, r - 1, pp.scalable_cols_[i]) \in
            {pp.lower_bounds_[pp.scalable_cols_[i] + 1],
             pp.upper_bounds_[pp.scalable_cols_[i] + 1]}
       /\ IsFin(Cell(result.X, q - 1, pp.scalable_cols_[i]))
       /\ Cell(result.Y, q - 1, pp.scalable_cols_[i]) =
            Cell(result.X, q - 1, pp.scalable_cols_[i])

\* every field of every record is an ordinary number, and each close price
\* and volume is strictly positive
PositiveInput(data) ==
  \A i \in 1..Len(data) :
    /\ \A name \in BaseColumns :
         LET v == CASE name = "open" -> to_float(data[i].open_price)
                    [] name = "high" -> to_float(data[i].high_price)
                    [] name = "low" -> to_float(data[i].low_price)
                    [] name = "close" -> to_float(data[i].close_price)
                    [] OTHER -> to_float(data[i].volume)
         IN IsFin(v)
    /\ DLess(D(0), to_float(data[i].close_price))
    /\ DLess(D(0), to_float(data[i].volume))

\* the timestamps of the input records from index L on
SuffixStamps(data, L) ==
  [k \in 1..(IF Len(data) > L THEN Len(data) - L ELSE 0) |->
     data[L + k].timestamp]

\* C28: for an input of n rows with strictly positive close prices and
\* volumes and all periods >= 1, build_features retains exactly the input
\* rows with index >= L, n - L rows in input order, and no row when n <= L,
\* L being the longest first-defined index over the configured features.
C28_RetainsSuffixFromLongestLookback ==
  (/\ IsBuildCall
   /\ PeriodsPositive(fe.config_)
   /\ PositiveInput(result.data))
    => /\ result.status = "ok"
       /\ result.fm.timestamps =
            SuffixStamps(result.data, LongestLookback(fe.config_))
       /\ NumRows(result.fm.data) = Len(result.fm.timestamps)

\* a longest lookback of two rows, and an input of rising and falling closes
\* of which the first two rows were dropped and two or more rows retained
C28_Witness ==
  /\ IsBuildCall
  /\ result.status = "ok"
  /\ PeriodsPositive(fe.config_)
  /\ PositiveInput(result.data)
  /\ LongestLookback(fe.config_) = 2
  /\ NumRows(result.fm.data) >= 2
  /\ OriginalIndex(1) = 3
  /\ \E i, j \in 1..Len(result.data) :
       result.data[i].close_price # result.data[j].close_price

\* how many retained rows of fm were built from the first k input records
RetainedBefore(data, fm, k) ==
  Cardinality({j \in 1..Len(fm.timestamps) :
                 \E i \in 1..k : data[i].timestamp = fm.timestamps[j]})

\* build_features on the first k records can return the retained rows of fm
\* that were built from those records, and their timestamps
PrefixAgrees(config, data, fm, k) ==
  \E g \in UBCells :
    /\ build_features(config, SubSeq(data, 1, k), g).timestamps =
         SubSeq(fm.timestamps, 1, RetainedBefore(data, fm, k))
    /\ build_features(config, SubSeq(data, 1, k), g).data.rows =
         SubSeq(fm.data.rows, 1, RetainedBefore(data, fm, k))

\* C29: for every configuration, build_features on the first k records of an
\* input returns the rows, and retains the records, that build_features on
\* the whole input returns for the original indices below k: no row depends
\* on a later record.
C29_NoLookAhead ==
  (IsBuildCall /\ result.status = "ok") =>
    \A k \in 0..Len(result.data) :
      PrefixAgrees(fe.config_, result.data, result.fm, k)

\* the rows of the data that no fold trains or validates on
RowsInNoFold(n, folds) ==
  {i \in 1..n : \A k \in 1..Len(folds) :
     /\ XData(n)[i] \notin Values(folds[k].train_X)
     /\ XData(n)[i] \notin Values(folds[k].val_X)}

\* C30: a walk_forward_splits call that returns gives exactly n_splits
\* folds; no validation window is clipped or empty: fold i validates on the
\* test_size rows from min_train + i*test_size, so that the windows are
\* disjoint and each starts where the one before ends; the last
\* (n - min_train) mod n_splits rows of the data are in no fold.
C30_ExactlyNSplitsFolds ==
  IsWalkReturn =>
    /\ Len(result.folds) = result.n_splits
    /\ WalkArgMinTrain + result.n_splits * WalkArgTestSize <= result.n
    /\ \A k \in 1..Len(result.folds) :
         /\ Len(result.folds[k].val_X) = WalkArgTestSize
         /\ result.folds[k].val_X =
              SubSeq(XData(result.n),
                     WalkArgMinTrain + (k - 1) * WalkArgTestSize + 1,
                     WalkArgMinTrain + k * WalkArgTestSize)
    /\ RowsInNoFold(result.n, result.folds) =
         (result.n - ((result.n - WalkArgMinTrain) % result.n_splits) + 1)
           ..result.n

====
